---- MODULE Spec2Model ----
(***************************************************************************)
(* Model of xappy's query-result cache layer: the per-cache hit lists, the *)
(* slot allocation kept in the index metadata, the application of cached   *)
(* ranks to document value slots (XapianCacheManager.apply_cached_items    *)
(* and IndexerConnection.apply_cached_items), and the invalidation paths   *)
(* (IndexerConnection.delete / replace, XapianCacheManager                 *)
(* .remove_cached_items).                                                  *)
(***************************************************************************)
EXTENDS Integers, Sequences, FiniteSets, TLC

(* ------------------------------ bounds -------------------------------- *)

\* Xapian document ids the index may use: 1..MaxDocs.
MaxDocs == 2
\* Largest number of cached queries one cache may hold.
MaxQueries == 2
\* Number of operations in one behaviour.
MaxOps == 4
\* Ranks near 0 and near the maximum that the rank codec is probed with.
RankSpan == 5
\* Largest value of the 'num_cache_slots' metadata in the coordinator runs.
MaxSlots == 3
\* Number of commits the concurrent writer makes during the searches.
MaxCommits == 3

\* Largest query id given to set_queryid.
MaxQid == 3

\* The docids 1..MaxProbeDocid are among those the term probe is run with.
MaxProbeDocid == 34

\* The clock of the response cache runs from 0 to MaxTime.
MaxTime == 2
\* The 'tools.caching.delay' the response cache is configured with.
CachingDelay == 1
\* The 'tools.caching.maxsize' the response cache is configured with.
CachingMaxSize == 4

(* ------------------------- program constants --------------------------- *)

\* xapian_manager.py: BASE_CACHE_SLOT
BASE_CACHE_SLOT == 10000
\* xapian_manager.py: CACHE_MANAGER_MAX_HITS
CACHE_MANAGER_MAX_HITS == 1000000
\* indexerconnection.py: IndexerConnection._cache_manager_slot_start
_cache_manager_slot_start == 10000
\* indexerconnection.py: IndexerConnection._cache_manager_max_hits
_cache_manager_max_hits == 1000000

\* The two caches of unittests/multiple_caches.py.
Caches == {"1", "cache2"}
NoCache == "None"

XapIds == 1..MaxDocs
\* Documents in the index when the connection is opened.
InitDocs == 1..MaxDocs
QueryIds == 0..(MaxQueries - 1)
\* An ordinary (field) value slot, below the cache region.
FieldSlot == 0

VARIABLES
    docs,             \* index: xapian docid -> [id, vals] for the documents present
    lastdocid,        \* index: highest docid ever used
    meta_caches,      \* index metadata 'caches': cache id -> slot offset
    num_cache_slots,  \* index metadata 'num_cache_slots'
    hascache,         \* index metadata '_xappy_hascache'
    ic_caches,        \* IndexerConnection._caches attribute
    cache_manager,    \* IndexerConnection.cache_manager
    nq,               \* cache -> number of cached queries
    hits,             \* cache -> query id -> hit list
    raised,           \* exception raised by the last operation
    lastop,           \* the last operation, its cache, document and slot base
    hist,             \* per cache: what its last application wrote
    nops,             \* operations done
    r1, r2, enc1, enc2, dec1, phase,  \* rank codec probe
    mc_caches,        \* XapianMultipleCachesManager.caches: id -> member manager
    selected_cache,   \* XapianMultipleCachesManager.selected_cache
    slots_info,       \* XapianMultipleCachesManager._slots_info
    mc_calls,         \* remove_hits calls made by the coordinator's last operation
    mc_op,            \* the coordinator's last operation
    inverted,         \* XapianSelfInvertingCacheManager.inverted
    invdb,            \* the database at inverted_db_path, when the directory exists
    db_exists,        \* os.path.exists(dbpath) of the self-inverting manager
    si_yield,         \* what the last iter_by_docid yielded
    si_op,            \* the self-inverting manager's last operation
    db_rev,           \* search index: the revision the writer committed last
    disk_config,      \* search index: the 'config' file, field -> slot of the facet fields
    sc_rev,           \* SearchConnection._index: the revision it references
    sc_config,        \* SearchConnection._field_actions / _field_mappings as loaded
    sc_pc,            \* SearchConnection.search: where the call stands
    enq,              \* the Enquire and match spy of the search: the slots resolved
    sc_result,        \* what the last search returned or raised
    ic_open,          \* IndexerConnection._index is not None
    next_docid,       \* IndexerConnection._next_docid
    config_modified,  \* IndexerConnection._config_modified
    stored_next,      \* the next docid in the stored '_xappy_config'
    usermeta,         \* index metadata under a key of the caller
    co_ret,           \* what the connection's last operation returned
    st,               \* a XapianCacheManager's database: on disk and as opened
    st_op,            \* the last operation on that manager and its outcome
    st_closed,        \* close() was called on that manager
    st_flushed,       \* the content written up to the last completed flush
    st_since,         \* the (key, value) pairs written since then
    st_ids,           \* query representation -> the id first returned for it
    qi_ids,           \* self-inverting cache with given ids: the query ids it holds
    qi_hits,          \* that cache: query id -> hit list
    qi_inverted,      \* that manager's inverted flag
    qi_invdb,         \* its inverted database: per docid, the query id of the document
    qi_op,            \* its last operation and what it raised
    d1, d2,           \* docid term probe: two docids of hit lists
    term1, term2,     \* their terms in the inverted database
    back1,            \* the docid read back from the first term
    tphase,           \* where the term probe stands
    cmgr,             \* a XapianCacheManager called by one caller: its database and handle
    cmgr_last,        \* key -> the value this manager wrote last under it
    cmgr_op,          \* the last call on it: what it returned, the handle a write went to
    cl_index,         \* closing connection: _index is not None
    cl_modified,      \* its _config_modified
    cl_pending,       \* its index holds changes not flushed
    cl_cm,            \* its cache_manager is not None
    cl_cmdb,          \* the handle of that cache manager: none, read or write
    cl_cmdirty,       \* that cache manager holds writes not committed
    cl_op,            \* the connection's last operation and what it raised
    hc_cache,         \* MemoryCache.cache: key -> the object held, its body size and expiration
    hc_expirations,   \* MemoryCache.expirations: time -> the (size, key) of its bucket
    hc_cursize,       \* MemoryCache.cursize
    hc_now,           \* the clock
    hc_put,           \* a put of a request thread between its size check and its store
    hc_removed,       \* what the expiration thread removed last: (key, expiration, time)
    hc_rq             \* the last request through the caching tool's get

cachevars == <<nq, hits>>
indexvars == <<docs, lastdocid, meta_caches, num_cache_slots, hascache>>
connvars == <<ic_caches, cache_manager>>
probevars == <<r1, r2, enc1, enc2, dec1, phase>>
multivars == <<mc_caches, selected_cache, slots_info, mc_calls, mc_op>>
\* The components outside the index, the connection and the caches.
invvars == <<inverted, invdb, db_exists, si_yield, si_op>>
searchvars == <<db_rev, disk_config, sc_rev, sc_config, sc_pc, enq, sc_result>>
lifevars == <<ic_open, next_docid, config_modified, stored_next, usermeta, co_ret>>
storevars == <<st, st_op, st_closed, st_flushed, st_since, st_ids>>
qidvars == <<qi_ids, qi_hits, qi_inverted, qi_invdb, qi_op>>
termvars == <<d1, d2, term1, term2, back1, tphase>>
callvars == <<cmgr, cmgr_last, cmgr_op>>
closevars == <<cl_index, cl_modified, cl_pending, cl_cm, cl_cmdb, cl_cmdirty, cl_op>>
httpvars == <<hc_cache, hc_expirations, hc_cursize, hc_now, hc_put, hc_removed, hc_rq>>
morevars == <<qidvars, termvars, callvars, closevars, httpvars>>
restvars == <<lifevars, storevars, morevars>>
compvars == <<multivars, invvars, searchvars, restvars>>
vars == <<docs, lastdocid, meta_caches, num_cache_slots, hascache, ic_caches,
          cache_manager, nq, hits, raised, lastop, hist, nops,
          r1, r2, enc1, enc2, dec1, phase, compvars>>

(* ----------------------- xapian value encoding ------------------------- *)

\* xapian.sortable_serialise: a number as a byte string whose lexicographic
\* order is the numeric order (a sign byte, then the magnitude big-endian).
Bytes3(n) == << n \div 65536, (n \div 256) % 256, n % 256 >>

sortable_serialise(x) ==
    IF x >= 0 THEN <<1>> \o Bytes3(x) ELSE <<0>> \o Bytes3(16777215 + x)

sortable_unserialise(v) ==
    LET m == v[2] * 65536 + v[3] * 256 + v[4]
    IN IF v[1] = 1 THEN m ELSE m - 16777215

\* Byte-string comparison, as the index compares stored values.
RECURSIVE LexLess(_, _)
LexLess(a, b) ==
    IF a = <<>> THEN b # <<>>
    ELSE IF b = <<>> THEN FALSE
    ELSE IF Head(a) # Head(b) THEN Head(a) < Head(b)
    ELSE LexLess(Tail(a), Tail(b))

(* ----------------------------- cache store ----------------------------- *)

\* Hit lists a cache-authoring call may store: duplicate-free docid sequences.
HitLists == {<<>>, <<1>>, <<2>>, <<1, 2>>, <<2, 1>>}

\* KeyValueStoreCacheManager.num_cached_queries
num_cached_queries(c) == nq[c]

\* KeyValueStoreCacheManager.iter_queryids
iter_queryids(c) == 0..(nq[c] - 1)

\* KeyValueStoreCacheManager.iter_by_docid (naive inversion): the
\* (queryid, rank) items of document d; rank is the position in the hit list.
InvertedItems(c, d) ==
    UNION {{<<q, p - 1>> : p \in {i \in 1..Len(hits[c][q]) : hits[c][q][i] = d}}
           : q \in iter_queryids(c)}

\* The docids iter_by_docid yields.
InvertedDocids(c) == {d \in XapIds : InvertedItems(c, d) # {}}

\* KeyValueStoreCacheManager.remove_hits for one (rank, docid): drops the
\* entry of docid found at that rank, or below it when earlier removals
\* shifted the list; a query id the cache does not hold has no hit list.
RemoveFromList(h, rank, docid) ==
    IF \E p \in 1..Len(h) : p - 1 <= rank /\ h[p] = docid
    THEN SelectSeq(h, LAMBDA x : x # docid)
    ELSE h

(* ----------------------------- rank codec ------------------------------ *)

\* Mutant: the rank itself is stored.
CMEncodeRank_Plain(rank) == sortable_serialise(rank)

\* xapian_manager.py apply_cached_items: the value stored for a rank.
CMEncodeRank(rank) == sortable_serialise(CACHE_MANAGER_MAX_HITS - rank)

\* indexerconnection.py apply_cached_items: the value stored for a rank.
ICEncodeRank(rank) == sortable_serialise(_cache_manager_max_hits - rank)

\* Mutant: the stored number is taken for the rank.
CMDecodeRank_Plain(value) == sortable_unserialise(value)

\* xapian_manager.py remove_cached_items: the rank read back from a value.
CMDecodeRank(value) == CACHE_MANAGER_MAX_HITS - sortable_unserialise(value)

\* indexerconnection.py _remove_cached_items: the rank read back from a value.
ICDecodeRank(value) == _cache_manager_max_hits - sortable_unserialise(value)

(* --------------------------- slot allocation --------------------------- *)

\* get_caches: the 'caches' metadata, {} when never set.
get_caches == meta_caches

\* conn._caches as cache_manager_slot_start sees it: loaded from the
\* metadata when the connection has no such attribute yet.
ConnCaches == IF ic_caches.set THEN ic_caches.map ELSE get_caches

\* cache_manager_slot_start(conn, cache_id) on a given _caches table.
cache_manager_slot_start(caches, cache_id) ==
    BASE_CACHE_SLOT + (IF cache_id \in DOMAIN caches THEN caches[cache_id] ELSE 0)

\* Document.add_value(start + queryid, value) for each (queryid, value).
AddValues(vals, start, qvals) ==
    LET slots == {start + it[1] : it \in qvals}
    IN [s \in (DOMAIN vals) \cup slots |->
          IF s \in slots
          THEN (CHOOSE it \in qvals : start + it[1] = s)[2]
          ELSE vals[s]]

\* Record of an operation: its name, cache, document, the slot base it
\* used, the values of the document it was given, and a flag: for an
\* application, that it repeats the operation before it; for a replace,
\* that the document replaced existed.
OpRec(name, c, d, base, vals, rep) ==
    [op |-> name, c |-> c, d |-> d, base |-> base, vals |-> vals, rep |-> rep]

Op(name, c, d, base) == OpRec(name, c, d, base, <<>>, FALSE)

(* ------------------------------- state --------------------------------- *)

FieldValue == <<7>>
NewFieldValue == <<8>>
EmptyMap == <<>>

\* Values a replacing document may carry: none, or a new field value (field
\* values take the slots the field mappings allocate, from 0 upwards).
NewDocVals == { EmptyMap, (FieldSlot :> NewFieldValue) }

NoHist ==
    [done |-> FALSE, wrote |-> {}, snap |-> [q \in QueryIds |-> <<>>],
     clean |-> FALSE, gone |-> {}]

\* History of an application of cache c at slot base start: the
\* (docid, queryid, slot) triples written, the hit lists as applied to the
\* documents present, and whether it was the first application of any cache.
HistApply(c, start) ==
    [x \in Caches |->
        IF x = c
        THEN [done |-> TRUE,
              wrote |-> UNION {{<<d, it[1], start + it[1]>> : it \in InvertedItems(c, d)}
                               : d \in DOMAIN docs},
              snap |-> [q \in QueryIds |->
                          SelectSeq(hits[c][q], LAMBDA d : d \in DOMAIN docs)],
              clean |-> \A y \in Caches : ~hist[y].done,
              gone |-> {}]
        ELSE [hist[x] EXCEPT !.clean = FALSE]]

HistDirty == [x \in Caches |-> [hist[x] EXCEPT !.clean = FALSE]]

\* Whether document d still holds a slot the last application of c wrote.
HoldsRank(c, d) ==
    /\ d \in DOMAIN docs
    /\ \E w \in hist[c].wrote : w[1] = d /\ w[3] \in DOMAIN docs[d].vals

HistDelete(d) ==
    [x \in Caches |->
        IF HoldsRank(x, d) THEN [hist[x] EXCEPT !.gone = @ \cup {d}] ELSE hist[x]]

ProbeIdle ==
    /\ r1 = 0 /\ r2 = 0 /\ enc1 = <<>> /\ enc2 = <<>> /\ dec1 = 0
    /\ phase = "idle"

\* XapianMultipleCachesManager.__init__, and no operation done on it.
NoSlotsInfo == [set |-> FALSE, tab |-> <<>>]
McOp(name, acted, d, err) == [name |-> name, acted |-> acted, d |-> d, raised |-> err]
MultiIdle ==
    /\ mc_caches = EmptyMap
    /\ selected_cache = NoCache
    /\ slots_info = NoSlotsInfo
    /\ mc_calls = <<>>
    /\ mc_op = McOp("init", {}, 0, "none")

\* XapianSelfInvertingCacheManager.__init__ on a path holding no database.
NoInvDb == [exists |-> FALSE, docs |-> <<>>]
InvIdle ==
    /\ inverted = FALSE
    /\ invdb = NoInvDb
    /\ db_exists = FALSE
    /\ si_yield = {}
    /\ si_op = "init"

\* The fields the search index may be configured with.
FieldNames == {"price", "colour"}
NoField == "None"
\* The configuration of an index made with one facet field, in slot 0.
FirstConfig == ("price" :> 0)
NoEnq == [sortby |-> NoField, getfacets |-> FALSE, sort |-> -1, facets |-> {}]
NoResult == [kind |-> "none", rev |-> 0, sort |-> -1, facets |-> {},
             mappings |-> EmptyMap, retries |-> 0]

\* SearchConnection.__init__ on an index just made: the database is opened
\* and the configuration loaded.
SearchIdle ==
    /\ db_rev = 0
    /\ disk_config = FirstConfig
    /\ sc_rev = 0
    /\ sc_config = FirstConfig
    /\ sc_pc = "idle"
    /\ enq = NoEnq
    /\ sc_result = NoResult

\* No document id given or returned.
NoId == -1

\* IndexerConnection.__init__ on an index without stored configuration.
LifeIdle ==
    /\ ic_open = TRUE
    /\ next_docid = 0
    /\ config_modified = FALSE
    /\ stored_next = 0
    /\ usermeta = ""
    /\ co_ret = NoId

\* The keys of the cache database: a hit-list chunk, the next query id,
\* and the query id of each of two query representations.
QueryReprs == {"x", "y"}
QKey(r) == IF r = "x" THEN "Qx" ELSE "Qy"
StKeys == {"H", "I"} \cup {QKey(r) : r \in QueryReprs}
EmptyStr == <<>>
NoContent == [k \in StKeys |-> EmptyStr]
StOp(name, key, ret, err) == [name |-> name, key |-> key, ret |-> ret, raised |-> err]

\* XapianCacheManager.__init__ on a path holding no database.
StoreIdle ==
    /\ st = [exists |-> FALSE, disk |-> NoContent, db |-> "none",
             writable |-> FALSE, view |-> NoContent]
    /\ st_op = StOp("init", "H", EmptyStr, "none")
    /\ st_closed = FALSE
    /\ st_flushed = NoContent
    /\ st_since = {}
    /\ st_ids = [r \in QueryReprs |-> NoId]

\* Query ids a caller may give to set_queryid.
GivenQueryIds == 0..MaxQid

\* A self-inverting manager constructed on an empty path.
QidIdle ==
    /\ qi_ids = {}
    /\ qi_hits = [q \in GivenQueryIds |-> <<>>]
    /\ qi_inverted = FALSE
    /\ qi_invdb = <<>>
    /\ qi_op = [name |-> "init", raised |-> "none"]

TermIdle ==
    /\ d1 = 1 /\ d2 = 1 /\ term1 = <<>> /\ term2 = <<>> /\ back1 = 0
    /\ tphase = "idle"

\* The keys the calls use, and the mark of a key the manager did not write.
CallKeys == {"H", "I"}
NotWritten == <<-1>>
CallOp(name, key, ret, handle) == [name |-> name, key |-> key, ret |-> ret, handle |-> handle]

\* XapianCacheManager.__init__ on a path holding no database.
CallIdle ==
    /\ cmgr = [exists |-> FALSE, disk |-> NoContent, db |-> "none",
               writable |-> FALSE, view |-> NoContent]
    /\ cmgr_last = [k \in CallKeys |-> NotWritten]
    /\ cmgr_op = CallOp("init", "H", EmptyStr, "none")

ClOp(name, err) == [name |-> name, raised |-> err]

\* IndexerConnection.__init__ and XapianCacheManager.__init__: an open
\* connection without cache manager, and a manager without handle.
CloseIdle ==
    /\ cl_index = TRUE
    /\ cl_modified = FALSE
    /\ cl_pending = FALSE
    /\ cl_cm = FALSE
    /\ cl_cmdb = "none"
    /\ cl_cmdirty = FALSE
    /\ cl_op = ClOp("init", "none")

\* The resources requested (the cache keys), and no object, no put, no
\* request.
HcKeys == {"/a", "/b"}
NoObj == [size |-> 0, exp |-> -1]
NoPut == [key |-> "", size |-> 0, total |-> 0, exp |-> -1]
Rq(method, key, cached, cacheable, ret, err, held) ==
    [method |-> method, key |-> key, cached |-> cached, cacheable |-> cacheable,
     ret |-> ret, raised |-> err, held |-> held]

\* MemoryCache.__init__ (clear), before any request.
HttpIdle ==
    /\ hc_cache = [k \in HcKeys |-> NoObj]
    /\ hc_expirations = [x \in 0..(MaxTime + CachingDelay) |-> <<>>]
    /\ hc_cursize = 0
    /\ hc_now = 0
    /\ hc_put = NoPut
    /\ hc_removed = {}
    /\ hc_rq = Rq("", "", "unset", "unset", "none", "none", FALSE)

MoreIdle == QidIdle /\ TermIdle /\ CallIdle /\ CloseIdle /\ HttpIdle

RestIdle == LifeIdle /\ StoreIdle /\ MoreIdle

CompIdle == MultiIdle /\ InvIdle /\ SearchIdle /\ RestIdle

\* An index holding documents without cached ranks, and two authored caches.
Init ==
    /\ docs = [d \in InitDocs |-> [id |-> d, vals |-> (FieldSlot :> FieldValue)]]
    /\ lastdocid = MaxDocs
    /\ meta_caches = EmptyMap
    /\ num_cache_slots = 0
    /\ hascache = FALSE
    /\ ic_caches = [set |-> FALSE, map |-> EmptyMap]
    /\ cache_manager = NoCache
    /\ nq = [c \in Caches |-> 1]
    /\ hits = [c \in Caches |-> [q \in QueryIds |->
                 IF q # 0 THEN <<>> ELSE IF c = "1" THEN <<2, 1>> ELSE <<1>>]]
    /\ raised = "none"
    /\ lastop = Op("init", NoCache, 0, 0)
    /\ hist = [c \in Caches |-> NoHist]
    /\ nops = 0
    /\ ProbeIdle
    /\ CompIdle

Step == nops < MaxOps /\ nops' = nops + 1 /\ UNCHANGED <<probevars, compvars>>

(* -------------------------- cache authoring ---------------------------- *)

\* get_or_make_queryid for a query not cached yet: the next query id.
MakeQueryId(c) ==
    /\ Step
    /\ nq[c] < MaxQueries
    /\ nq' = [nq EXCEPT ![c] = nq[c] + 1]
    /\ raised' = "none"
    /\ lastop' = Op("MakeQueryId", c, 0, 0)
    /\ UNCHANGED <<hits, indexvars, connvars, hist>>

\* set_hits(queryid, docids): replaces the hit list wholesale.
SetHits(c, q, h) ==
    /\ Step
    /\ q \in iter_queryids(c)
    /\ hits[c][q] # h
    /\ hits' = [hits EXCEPT ![c][q] = h]
    /\ raised' = "none"
    /\ lastop' = Op("SetHits", c, 0, 0)
    /\ UNCHANGED <<nq, indexvars, connvars, hist>>

(* ------------------- XapianCacheManager (xapian_manager.py) ------------ *)

\* Mutant: a cache already registered is moved to the high-water mark.
RegisteredCaches_Always(caches, c) == (c :> num_cache_slots) @@ caches

\* The offset table after apply_cached_items registered cache c.
RegisteredCaches(caches, c) ==
    IF c \in DOMAIN caches THEN caches ELSE (c :> num_cache_slots) @@ caches

\* Mutant: the mark advances only when the cache is registered.
NewNumCacheSlots_Once(c) ==
    IF c \in DOMAIN get_caches THEN num_cache_slots
    ELSE num_cache_slots + num_cached_queries(c)

\* The 'num_cache_slots' metadata apply_cached_items of cache c stores.
NewNumCacheSlots(c) == num_cache_slots + num_cached_queries(c)

\* The (queryid, stored value) pairs apply_cached_items adds to document d.
RankValues(c, d, usecm) ==
    {<<it[1], IF usecm THEN CMEncodeRank(it[2]) ELSE ICEncodeRank(it[2])>>
     : it \in InvertedItems(c, d)}

\* Mutant: DocNotFoundError is not caught, the loop ends at the first
\* docid that is not in the index.
ApplyToDocs_StopAtAbsent(c, start, usecm) ==
    [d \in DOMAIN docs |->
        IF d \in InvertedDocids(c) /\ \A a \in InvertedDocids(c) \ DOMAIN docs : d < a
        THEN [docs[d] EXCEPT !.vals =
                AddValues(docs[d].vals, start, RankValues(c, d, usecm))]
        ELSE docs[d]]

\* The documents after the loop over iter_by_docid: a docid not in the
\* index is skipped (DocNotFoundError is caught), every other one gets its
\* rank values at start + queryid and is written back.
ApplyToDocs(c, start, usecm) ==
    [d \in DOMAIN docs |->
        IF d \in InvertedDocids(c)
        THEN [docs[d] EXCEPT !.vals =
                AddValues(docs[d].vals, start, RankValues(c, d, usecm))]
        ELSE docs[d]]

\* XapianCacheManager.apply_cached_items(iconn)
CMApply(c) ==
    /\ Step
    /\ LET caches == RegisteredCaches(get_caches, c)
           start == cache_manager_slot_start(caches, c)
       IN /\ ic_caches' = [set |-> TRUE, map |-> caches]
          /\ meta_caches' = caches
          /\ num_cache_slots' = NewNumCacheSlots(c)
          /\ hascache' = TRUE
          /\ docs' = ApplyToDocs(c, start, TRUE)
          /\ lastop' = OpRec("CMApply", c, 0, start, <<>>,
                              lastop.op = "CMApply" /\ lastop.c = c)
          /\ hist' = HistApply(c, start)
    /\ raised' = "none"
    /\ UNCHANGED <<lastdocid, cache_manager, cachevars>>

\* The hit lists of cache c after remove_hits for every value of the
\* document that lies in [base, upper), with query id = slot - base.
RemoveValues(c, vals, base, upper, xapid, usecm) ==
    [hits EXCEPT ![c] =
        [q \in QueryIds |->
            IF /\ base + q \in DOMAIN vals
               /\ base + q < upper
               /\ q \in iter_queryids(c)
            THEN RemoveFromList(hits[c][q],
                    IF usecm THEN CMDecodeRank(vals[base + q])
                             ELSE ICDecodeRank(vals[base + q]),
                    xapid)
            ELSE hits[c][q]]]

\* XapianCacheManager.remove_cached_items(iconn, doc, xapid)
CMRemove(c, xapid) ==
    /\ Step
    /\ xapid \in DOMAIN docs
    /\ LET base == cache_manager_slot_start(ConnCaches, c)
           upper == base + num_cached_queries(c)
       IN /\ hits' = RemoveValues(c, docs[xapid].vals, base, upper, xapid, TRUE)
          /\ lastop' = Op("CMRemove", c, xapid, base)
    /\ ic_caches' = [set |-> TRUE, map |-> ConnCaches]
    /\ raised' = "none"
    /\ UNCHANGED <<nq, indexvars, cache_manager, hist>>

(* ---------------- IndexerConnection (indexerconnection.py) ------------- *)

\* IndexerConnection.set_cache_manager
SetCacheManager(c) ==
    /\ Step
    /\ cache_manager # c
    /\ cache_manager' = c
    /\ raised' = "none"
    /\ lastop' = Op("SetCacheManager", c, 0, 0)
    /\ UNCHANGED <<indexvars, ic_caches, cachevars, hist>>

\* IndexerConnection.apply_cached_items
ICApply ==
    /\ Step
    /\ IF cache_manager = NoCache
       THEN /\ raised' = "RuntimeError"
            /\ lastop' = Op("ICApplyFailed", NoCache, 0, 0)
            /\ UNCHANGED <<docs, hist>>
       ELSE /\ raised' = "none"
            /\ docs' = ApplyToDocs(cache_manager, _cache_manager_slot_start, FALSE)
            /\ lastop' = OpRec("ICApply", cache_manager, 0,
                                _cache_manager_slot_start, <<>>,
                                lastop.op = "ICApply" /\ lastop.c = cache_manager)
            /\ hist' = HistApply(cache_manager, _cache_manager_slot_start)
    /\ UNCHANGED <<lastdocid, meta_caches, num_cache_slots, hascache, connvars,
                   cachevars>>

\* The xapian docids of the documents carrying unique id term 'Q' + id.
WithId(id) == {d \in DOMAIN docs : docs[d].id = id}

Min(S) == CHOOSE x \in S : \A y \in S : x <= y
Max(S) == CHOOSE x \in S : \A y \in S : x >= y

\* Mutant: the lookup by id raises as well when no document has the id.
GetXapdocRaises_ById(id, xapid) ==
    (xapid # 0 /\ xapid \notin DOMAIN docs) \/ (xapid = 0 /\ WithId(id) = {})

\* IndexerConnection._get_xapdoc: the docid found, 0 for (None, None); the
\* lookup by xapid raises DocNotFoundError when the document is absent.
GetXapdocRaises(id, xapid) == xapid # 0 /\ xapid \notin DOMAIN docs

GetXapdoc(id, xapid) ==
    IF xapid = 0
    THEN (IF WithId(id) = {} THEN 0 ELSE Min(WithId(id)))
    ELSE xapid

\* Mutant: the removal runs after the document was deleted and finds none.
ICRemoveValues_AfterDelete(found) == hits

\* IndexerConnection._remove_cached_items: remove_hits on the connection's
\* cache manager for every value at or above _cache_manager_slot_start.
ICRemoveValues(found) ==
    IF found = 0 THEN hits
    ELSE RemoveValues(cache_manager, docs[found].vals, _cache_manager_slot_start,
                      _cache_manager_slot_start + MaxQueries, found, FALSE)

\* Database.delete_document by unique term (every document carrying it) or
\* by docid.
DeleteDocument(id, xapid) ==
    LET gone == IF xapid = 0 THEN WithId(id) ELSE {xapid}
    IN [d \in (DOMAIN docs) \ gone |-> docs[d]]

\* IndexerConnection.delete(id, xapid); xapid = 0 stands for None.
ICDelete(id, xapid) ==
    /\ Step
    /\ IF cache_manager # NoCache /\ GetXapdocRaises(id, xapid)
       THEN /\ raised' = "DocNotFoundError"
            /\ lastop' = Op("ICDeleteFailed", cache_manager, xapid, 0)
            /\ UNCHANGED <<docs, hits, hist>>
       ELSE /\ hits' = IF cache_manager = NoCache THEN hits
                       ELSE ICRemoveValues(GetXapdoc(id, xapid))
            /\ IF xapid # 0 /\ xapid \notin DOMAIN docs
               THEN /\ raised' = "DocNotFoundError"
                    /\ lastop' = Op("ICDeleteFailed", cache_manager, xapid, 0)
                    /\ UNCHANGED <<docs, hist>>
               ELSE /\ raised' = "none"
                    /\ docs' = DeleteDocument(id, xapid)
                    /\ lastop' = Op("ICDelete", cache_manager,
                                    GetXapdoc(id, xapid), _cache_manager_slot_start)
                    /\ hist' = IF cache_manager = NoCache THEN HistDirty
                               ELSE HistDelete(GetXapdoc(id, xapid))
    /\ UNCHANGED <<lastdocid, meta_caches, num_cache_slots, hascache, connvars, nq>>

\* Mutant: nothing is copied.
CopyCacheValues_None(oldvals, newvals) == newvals

\* Mutant: only the slots of the connection's own cache manager are copied.
CopyCacheValues_OwnOnly(oldvals, newvals) ==
    LET base == cache_manager_slot_start(ConnCaches, cache_manager)
        own == {t \in DOMAIN oldvals :
                   base <= t /\ t < base + num_cached_queries(cache_manager)}
    IN [s \in (DOMAIN newvals) \cup own |->
           IF s \in own THEN oldvals[s] ELSE newvals[s]]

\* Mutant: every value of the old document is copied.
CopyCacheValues_All(oldvals, newvals) ==
    [s \in (DOMAIN newvals) \cup (DOMAIN oldvals) |->
        IF s \in DOMAIN oldvals THEN oldvals[s] ELSE newvals[s]]

\* The cache-region values of the old document, copied over the new one.
CopyCacheValues(oldvals, newvals) ==
    [s \in (DOMAIN newvals) \cup
           {t \in DOMAIN oldvals : ~(t < _cache_manager_slot_start)} |->
        IF s \in DOMAIN oldvals /\ ~(s < _cache_manager_slot_start)
        THEN oldvals[s] ELSE newvals[s]]

\* The values replace() stores: the new document's, with the old cache
\* values copied when a cache manager is set and the old document exists.
ReplaceVals(id, xapid, newvals) ==
    IF cache_manager # NoCache /\ GetXapdoc(id, xapid) # 0
    THEN CopyCacheValues(docs[GetXapdoc(id, xapid)].vals, newvals)
    ELSE newvals

\* IndexerConnection.replace(document, xapid); xapid = 0 stands for None.
ICReplace(id, xapid, newvals) ==
    /\ Step
    /\ IF cache_manager # NoCache /\ GetXapdocRaises(id, xapid)
       THEN /\ raised' = "DocNotFoundError"
            /\ lastop' = Op("ICReplaceFailed", cache_manager, xapid, 0)
            /\ UNCHANGED <<docs, lastdocid, hist>>
       ELSE LET xapdoc == [id |-> id, vals |-> ReplaceVals(id, xapid, newvals)]
                target == IF xapid # 0 THEN xapid
                          ELSE IF WithId(id) # {} THEN Min(WithId(id))
                          ELSE lastdocid + 1
                others == IF xapid = 0 THEN WithId(id) \ {target} ELSE {}
            IN /\ target <= MaxDocs + 1
               /\ docs' = [d \in ((DOMAIN docs) \ others) \cup {target} |->
                              IF d = target THEN xapdoc ELSE docs[d]]
               /\ lastdocid' = Max({lastdocid, target})
               /\ raised' = "none"
               /\ lastop' = OpRec("ICReplace", cache_manager, target, 0, newvals,
                                   target \in DOMAIN docs)
               /\ hist' = IF /\ cache_manager # NoCache
                             /\ \A t \in DOMAIN newvals : t < BASE_CACHE_SLOT
                          THEN hist ELSE HistDirty
    /\ UNCHANGED <<meta_caches, num_cache_slots, hascache, connvars, cachevars>>

(* --------------------------- specification ----------------------------- *)

Next ==
    \/ \E c \in Caches : MakeQueryId(c)
    \/ \E c \in Caches : \E q \in QueryIds : \E h \in HitLists : SetHits(c, q, h)
    \/ \E c \in Caches : CMApply(c)
    \/ \E c \in Caches : \E d \in XapIds : CMRemove(c, d)
    \/ \E c \in Caches \cup {NoCache} : SetCacheManager(c)
    \/ ICApply
    \/ \E id \in XapIds : \E xapid \in {0, id} : ICDelete(id, xapid)
    \/ \E id \in XapIds : \E xapid \in {0, id} : \E nv \in NewDocVals :
          ICReplace(id, xapid, nv)

Spec == Init /\ [][Next]_vars

(* ------------------------------ rank probe ----------------------------- *)

\* Ranks the codec is probed with: near 0 and near the maximum.
RankSamples ==
    (0..RankSpan) \cup ((CACHE_MANAGER_MAX_HITS - RankSpan)..CACHE_MANAGER_MAX_HITS)

InitRank ==
    /\ docs = [d \in InitDocs |-> [id |-> d, vals |-> (FieldSlot :> FieldValue)]]
    /\ lastdocid = MaxDocs
    /\ meta_caches = EmptyMap
    /\ num_cache_slots = 0
    /\ hascache = FALSE
    /\ ic_caches = [set |-> FALSE, map |-> EmptyMap]
    /\ cache_manager = NoCache
    /\ nq = [c \in Caches |-> 1]
    /\ hits = [c \in Caches |-> [q \in QueryIds |-> <<>>]]
    /\ raised = "none"
    /\ lastop = Op("init", NoCache, 0, 0)
    /\ hist = [c \in Caches |-> NoHist]
    /\ nops = 0
    /\ r1 \in RankSamples /\ r2 \in RankSamples
    /\ enc1 = <<>> /\ enc2 = <<>> /\ dec1 = 0
    /\ phase = "start"
    /\ CompIdle

mainvars == <<docs, lastdocid, meta_caches, num_cache_slots, hascache, ic_caches,
              cache_manager, nq, hits, raised, lastop, hist, nops, compvars>>

\* The values the cache manager's apply_cached_items stores for r1 and r2.
ProbeCMStore ==
    /\ phase = "start"
    /\ enc1' = CMEncodeRank(r1) /\ enc2' = CMEncodeRank(r2)
    /\ phase' = "cm_stored"
    /\ UNCHANGED <<r1, r2, dec1, mainvars>>

\* The values the connection's apply_cached_items stores for r1 and r2.
ProbeICStore ==
    /\ phase = "start"
    /\ enc1' = ICEncodeRank(r1) /\ enc2' = ICEncodeRank(r2)
    /\ phase' = "ic_stored"
    /\ UNCHANGED <<r1, r2, dec1, mainvars>>

\* The rank the cache manager's remove_cached_items reads back.
ProbeCMRead ==
    /\ phase \in {"cm_stored", "ic_stored"}
    /\ dec1' = CMDecodeRank(enc1)
    /\ phase' = "cm_read"
    /\ UNCHANGED <<r1, r2, enc1, enc2, mainvars>>

\* The rank the connection's _remove_cached_items reads back.
ProbeICRead ==
    /\ phase \in {"cm_stored", "ic_stored"}
    /\ dec1' = ICDecodeRank(enc1)
    /\ phase' = "ic_read"
    /\ UNCHANGED <<r1, r2, enc1, enc2, mainvars>>

NextRank == ProbeCMStore \/ ProbeICStore \/ ProbeCMRead \/ ProbeICRead

SpecRank == InitRank /\ [][NextRank]_vars

(* ---------------------------- merged search ---------------------------- *)

\* The plain live query's order among the documents it matches (the
\* unit tests' field query returns the higher docids first).
RECURSIVE LiveOrder(_)
LiveOrder(S) ==
    IF S = {} THEN <<>>
    ELSE LET d == Max(S) IN <<d>> \o LiveOrder(S \ {d})

\* The documents holding a value in a slot, larger stored value first.
RECURSIVE ValueOrder(_, _)
ValueOrder(S, slot) ==
    IF S = {} THEN <<>>
    ELSE LET d == CHOOSE x \in S : \A y \in S \ {x} :
                    \/ LexLess(docs[y].vals[slot], docs[x].vals[slot])
                    \/ (docs[y].vals[slot] = docs[x].vals[slot] /\ y < x)
         IN <<d>> \o ValueOrder(S \ {d}, slot)

\* The slot a query merged with cached query q of cache c reads.
MergeSlot(c, q) == cache_manager_slot_start(get_caches, c) + q

Ranked(c, q) == {d \in DOMAIN docs : MergeSlot(c, q) \in DOMAIN docs[d].vals}

\* The ranked documents of a merged search, best first.
RankedPart(c, q) == ValueOrder(Ranked(c, q), MergeSlot(c, q))

\* live query OR cached query: the ranked documents, then the other
\* documents the live query matches, in its own order.
MergedSearch(c, q, match) ==
    RankedPart(c, q) \o LiveOrder(match \ Ranked(c, q))

Range(f) == {f[i] : i \in DOMAIN f}

(* --------- XapianMultipleCachesManager (xapian_manager.py) ------------- *)

\* The cache ids the coordinator is given: the two of the tests and a third.
MCacheIds == Caches \cup {"cache3"}

\* A member XapianCacheManager as add_cache makes it: no database open.
NewMember == [db |-> "none"]

\* XapianCacheManager.__getitem__ / keys: a read opens the database
\* read-only when none is open.
MemberRead(m) == IF m.db = "none" THEN [m EXCEPT !.db = "read"] ELSE m

\* XapianCacheManager.__setitem__ / __delitem__: a write opens the database
\* writable.
MemberWrite(m) == [m EXCEPT !.db = "write"]

\* XapianCacheManager.close
MemberClose(m) == [m EXCEPT !.db = "none"]

\* An index with two documents, three authored caches on disk, and a
\* coordinator just constructed.
InitMulti ==
    /\ docs = [d \in InitDocs |-> [id |-> d, vals |-> (FieldSlot :> FieldValue)]]
    /\ lastdocid = MaxDocs
    /\ meta_caches = EmptyMap
    /\ num_cache_slots = 0
    /\ hascache = FALSE
    /\ ic_caches = [set |-> FALSE, map |-> EmptyMap]
    /\ cache_manager = NoCache
    /\ nq = [c \in MCacheIds |-> 1]
    /\ hits = [c \in MCacheIds |-> [q \in QueryIds |->
                 IF q # 0 THEN <<>>
                 ELSE IF c = "cache2" THEN <<2>> ELSE <<1>>]]
    /\ raised = "none"
    /\ lastop = Op("init", NoCache, 0, 0)
    /\ hist = [c \in Caches |-> NoHist]
    /\ nops = 0
    /\ ProbeIdle
    /\ MultiIdle
    /\ InvIdle
    /\ SearchIdle
    /\ RestIdle

\* What the coordinator's operations leave alone.
multiframe == <<lastdocid, cache_manager, nq, raised, lastop, hist, nops, probevars,
                invvars, searchvars, restvars>>

\* XapianMultipleCachesManager.add_cache(cache_id), for an id not added yet.
MCAddCache(c) ==
    /\ mc_calls' = <<>>
    /\ c \notin DOMAIN mc_caches
    /\ mc_caches' = (c :> NewMember) @@ mc_caches
    /\ slots_info' = NoSlotsInfo
    /\ mc_op' = McOp("add_cache", {c}, 0, "none")
    /\ UNCHANGED <<selected_cache, indexvars, ic_caches, hits, multiframe>>

\* XapianMultipleCachesManager.select_cache(cache_id): self.caches[cache_id]
MCSelectCache(c) ==
    /\ mc_calls' = <<>>
    /\ IF c \in DOMAIN mc_caches
       THEN /\ selected_cache' = c
            /\ mc_op' = McOp("select_cache", {c}, 0, "none")
       ELSE /\ mc_op' = McOp("select_cache", {}, 0, "KeyError")
            /\ UNCHANGED selected_cache
    /\ UNCHANGED <<mc_caches, slots_info, indexvars, ic_caches, hits,
                   multiframe>>

\* A read-oriented call (get_hits, num_cached_queries, ...) on the
\* coordinator: __getattr__ hands out the selected cache's method.
MCRead ==
    /\ mc_calls' = <<>>
    /\ IF selected_cache = NoCache
       THEN /\ mc_op' = McOp("read", {}, 0, "AttributeError")
            /\ UNCHANGED mc_caches
       ELSE /\ mc_caches' = [mc_caches EXCEPT ![selected_cache] = MemberRead(@)]
            /\ mc_op' = McOp("read", {selected_cache}, 0, "none")
    /\ UNCHANGED <<selected_cache, slots_info, indexvars, ic_caches, hits,
                   multiframe>>

\* apply_cached_items(iconn) on the coordinator: the class defines no such
\* method, so __getattr__ hands out the selected cache's.
MCApply ==
    /\ mc_calls' = <<>>
    /\ IF selected_cache = NoCache
       THEN /\ mc_op' = McOp("apply", {}, 0, "AttributeError")
            /\ UNCHANGED <<mc_caches, indexvars, ic_caches>>
       ELSE LET c == selected_cache
                registered == RegisteredCaches(get_caches, c)
                start == cache_manager_slot_start(registered, c)
            IN /\ num_cache_slots + num_cached_queries(c) <= MaxSlots
               /\ ic_caches' = [set |-> TRUE, map |-> registered]
               /\ meta_caches' = registered
               /\ num_cache_slots' = NewNumCacheSlots(c)
               /\ hascache' = TRUE
               /\ docs' = ApplyToDocs(c, start, TRUE)
               /\ mc_caches' = [mc_caches EXCEPT ![c] = MemberRead(@)]
               /\ mc_op' = McOp("apply", {c}, 0, "none")
               /\ UNCHANGED lastdocid
    /\ UNCHANGED <<selected_cache, slots_info, hits, multiframe>>

\* The (base_slot, upper_slot, cache) entries _get_slots_info collects.
SlotsEntries ==
    {<<cache_manager_slot_start(ConnCaches, c),
       cache_manager_slot_start(ConnCaches, c) + num_cached_queries(c), c>>
     : c \in DOMAIN mc_caches}

\* Order of the tuples under result.sort() as far as the slots decide it.
SlotsBefore(e, f) == e[1] < f[1] \/ (e[1] = f[1] /\ e[2] <= f[2])

\* The tables result.sort() may leave: entries with equal slots compare by
\* their cache manager objects, in an order the program does not fix.
SortedTables ==
    {t \in [1..Cardinality(SlotsEntries) -> SlotsEntries] :
        /\ \A i \in DOMAIN t : \A j \in DOMAIN t : i < j =>
              (t[i] # t[j] /\ SlotsBefore(t[i], t[j]))}

\* The slot numbers of a document's values, in increasing order.
RECURSIVE SlotsInOrder(_)
SlotsInOrder(S) ==
    IF S = {} THEN <<>>
    ELSE LET m == Min(S) IN <<m>> \o SlotsInOrder(S \ {m})

\* remove_cached_items: the table index after the test of one value's slot
\* against upper_slot; it advances by one entry at most.
MCAdvance(tab, index, slot_number) ==
    IF slot_number >= tab[index][2] THEN index + 1 ELSE index

\* remove_cached_items: the loop over doc.values() from table entry index
\* on; the remove_hits calls it makes, as (cache, queryid, rank, xapid).
RECURSIVE MCLoop(_, _, _, _, _)
MCLoop(slots, vals, tab, index, xapid) ==
    IF slots = <<>> THEN <<>>
    ELSE LET slot_number == Head(slots)
             next == MCAdvance(tab, index, slot_number)
         IN IF next > Len(tab) THEN <<>>
            ELSE LET e == tab[next]
                     call == IF e[1] <= slot_number /\ slot_number < e[2]
                             THEN << <<e[3], slot_number - e[1],
                                       CMDecodeRank(vals[slot_number]), xapid>> >>
                             ELSE <<>>
                 IN call \o MCLoop(Tail(slots), vals, tab, next, xapid)

\* The hit lists after the remove_hits calls, made in order.
RECURSIVE MCRemoveHits(_, _)
MCRemoveHits(hs, calls) ==
    IF calls = <<>> THEN hs
    ELSE LET k == Head(calls)
             h2 == IF k[2] \in iter_queryids(k[1])
                   THEN [hs EXCEPT ![k[1]][k[2]] = RemoveFromList(@, k[3], k[4])]
                   ELSE hs
         IN MCRemoveHits(h2, Tail(calls))

\* XapianMultipleCachesManager.remove_cached_items(iconn, doc, xapid), with
\* _get_slots_info: the table is built on the first use after add_cache.
MCRemove(xapid) ==
    /\ xapid \in DOMAIN docs
    /\ IF DOMAIN mc_caches = {}
       THEN /\ mc_calls' = <<>>
            /\ UNCHANGED <<slots_info, mc_caches, hits, ic_caches>>
       ELSE \E t \in (IF slots_info.set THEN {slots_info.tab} ELSE SortedTables) :
            LET vals == docs[xapid].vals
                calls == MCLoop(SlotsInOrder(DOMAIN vals), vals, t, 1, xapid)
                called == {calls[i][1] : i \in DOMAIN calls}
            IN /\ slots_info' = [set |-> TRUE, tab |-> t]
               /\ ic_caches' = IF slots_info.set THEN ic_caches
                               ELSE [set |-> TRUE, map |-> ConnCaches]
               /\ mc_calls' = calls
               /\ hits' = MCRemoveHits(hits, calls)
               /\ mc_caches' = [c \in DOMAIN mc_caches |->
                                  IF c \in called THEN MemberWrite(mc_caches[c])
                                  ELSE IF slots_info.set THEN mc_caches[c]
                                  ELSE MemberRead(mc_caches[c])]
    /\ mc_op' = McOp("remove", {}, xapid, "none")
    /\ UNCHANGED <<selected_cache, indexvars, multiframe>>

\* XapianMultipleCachesManager.flush: XapianCacheManager.flush on every
\* member; it commits when the member's database is open for writing.
MCFlush ==
    /\ mc_calls' = <<>>
    /\ mc_op' = McOp("flush", DOMAIN mc_caches, 0, "none")
    /\ UNCHANGED <<mc_caches, selected_cache, slots_info, indexvars,
                   ic_caches, hits, multiframe>>

\* XapianMultipleCachesManager.close: XapianCacheManager.close on every member.
MCClose ==
    /\ mc_calls' = <<>>
    /\ mc_caches' = [c \in DOMAIN mc_caches |-> MemberClose(mc_caches[c])]
    /\ mc_op' = McOp("close", DOMAIN mc_caches, 0, "none")
    /\ UNCHANGED <<selected_cache, slots_info, indexvars, ic_caches, hits,
                   multiframe>>

NextMulti ==
    \/ \E c \in MCacheIds : MCAddCache(c)
    \/ \E c \in MCacheIds : MCSelectCache(c)
    \/ MCRead
    \/ MCApply
    \/ \E xapid \in XapIds : MCRemove(xapid)
    \/ MCFlush
    \/ MCClose

SpecMulti == InitMulti /\ [][NextMulti]_vars

(* ------- XapianSelfInvertingCacheManager (xapian_manager.py) ----------- *)

\* The cache the self-inverting manager stores: the default id.
SICache == "1"

\* Hit lists the self-inverting cache is given: empty, single-element and
\* longer ones, over docids with one, two and three hexadecimal digits.
SIHitLists == {<<>>, <<16>>, <<2, 16>>, <<16, 2>>, <<256, 2, 16>>}

\* '%x' % n, as the sequence of the digits' values.
RECURSIVE HexDigits(_)
HexDigits(n) == IF n < 16 THEN <<n>> ELSE HexDigits(n \div 16) \o <<n % 16>>

\* int(s, 16); the empty string is no number (ValueError), shown as -1.
RECURSIVE FromHex(_)
FromHex(str) ==
    IF str = <<>> THEN -1
    ELSE IF Len(str) = 1 THEN str[1]
    ELSE FromHex(SubSeq(str, 1, Len(str) - 1)) * 16 + str[Len(str)]

\* Mutant: the docid is stored without the length in front.
DocidTerm_Plain(docid) == HexDigits(docid)

\* prepare_iter_by_docid: the term of a docid, its hexadecimal form with the
\* form's length in front.
DocidTerm(docid) == HexDigits(Len(HexDigits(docid))) \o HexDigits(docid)

\* iter_by_docid: int(item.term[1:], 16)
TermDocid(term) == FromHex(Tail(term))

RECURSIVE SumSet(_)
SumSet(S) == IF S = {} THEN 0 ELSE LET x == CHOOSE y \in S : TRUE
                                   IN x + SumSet(S \ {x})

\* prepare_iter_by_docid: the document of one query: doc.add_term(term,
\* rank) for every (rank, docid) of its hit list; the rank adds to the wdf.
QueryDoc(h) ==
    [t \in {DocidTerm(h[i]) : i \in DOMAIN h} |->
        SumSet({i - 1 : i \in {j \in DOMAIN h : DocidTerm(h[j]) = t}})]

\* prepare_iter_by_docid: the inverted database; the document of query id
\* qid gets docid qid + 1.
BuiltInvDb ==
    [exists |-> TRUE,
     docs |-> [k \in 1..num_cached_queries(SICache) |-> QueryDoc(hits[SICache][k - 1])]]

\* iter_by_docid over a database: for every term, the docid it decodes to
\* and the (item.docid - 1, item.wdf) of its postings.
DiskInversion(db) ==
    {<<TermDocid(t), {<<k - 1, db[k][t]>> : k \in {j \in DOMAIN db : t \in DOMAIN db[j]}}>>
     : t \in UNION {DOMAIN db[k] : k \in DOMAIN db}}

\* The naive in-memory inversion of the cache's hit lists.
NaiveInversion ==
    {<<d, InvertedItems(SICache, d)>> :
        d \in UNION {Range(hits[SICache][q]) : q \in iter_queryids(SICache)}}

\* A self-inverting manager constructed on an empty path.
InitInv ==
    /\ docs = [d \in InitDocs |-> [id |-> d, vals |-> (FieldSlot :> FieldValue)]]
    /\ lastdocid = MaxDocs
    /\ meta_caches = EmptyMap
    /\ num_cache_slots = 0
    /\ hascache = FALSE
    /\ ic_caches = [set |-> FALSE, map |-> EmptyMap]
    /\ cache_manager = NoCache
    /\ nq = [c \in {SICache} |-> 0]
    /\ hits = [c \in {SICache} |-> [q \in QueryIds |-> <<>>]]
    /\ raised = "none"
    /\ lastop = Op("init", NoCache, 0, 0)
    /\ hist = [c \in Caches |-> NoHist]
    /\ nops = 0
    /\ ProbeIdle
    /\ MultiIdle
    /\ InvIdle
    /\ SearchIdle
    /\ RestIdle

invframe == <<indexvars, connvars, raised, lastop, hist, nops, probevars, multivars,
              searchvars, restvars>>

\* invalidate_iter_by_docid, as the inverted database it leaves.
Invalidated == IF inverted THEN NoInvDb ELSE invdb

\* get_or_make_queryid for a new query: the store is written
\* (__setitem__), which invalidates the inversion.
SIMakeQueryId ==
    /\ nq[SICache] < MaxQueries
    /\ nq' = [nq EXCEPT ![SICache] = @ + 1]
    /\ db_exists' = TRUE
    /\ invdb' = Invalidated
    /\ inverted' = FALSE
    /\ si_op' = "set"
    /\ UNCHANGED <<hits, si_yield, invframe>>

\* set_hits(queryid, docids): __setitem__ of the hits key.
SISetHits(q, h) ==
    /\ q \in iter_queryids(SICache)
    /\ hits' = [hits EXCEPT ![SICache][q] = h]
    /\ db_exists' = TRUE
    /\ invdb' = Invalidated
    /\ inverted' = FALSE
    /\ si_op' = "set"
    /\ UNCHANGED <<nq, si_yield, invframe>>

\* __delitem__ of the hits key of a query: its hit list is empty afterwards.
SIDelHits(q) ==
    /\ q \in iter_queryids(SICache)
    /\ hits' = [hits EXCEPT ![SICache][q] = <<>>]
    /\ db_exists' = TRUE
    /\ invdb' = Invalidated
    /\ inverted' = FALSE
    /\ si_op' = "del"
    /\ UNCHANGED <<nq, si_yield, invframe>>

\* iter_by_docid with prepare_iter_by_docid: the inverted database is
\* rebuilt unless marked valid; with no cache database nothing is built and
\* an empty database is read.
SIIterByDocid ==
    /\ inverted' = TRUE
    /\ invdb' = IF inverted \/ ~db_exists THEN invdb ELSE BuiltInvDb
    /\ si_yield' = IF db_exists
                   THEN DiskInversion((IF inverted THEN invdb ELSE BuiltInvDb).docs)
                   ELSE {}
    /\ si_op' = "iter_by_docid"
    /\ UNCHANGED <<nq, hits, db_exists, invframe>>

\* A manager constructed anew on the same path: __init__ sets inverted to
\* False and leaves the directories as they are.
SIConstruct ==
    /\ inverted' = FALSE
    /\ si_op' = "construct"
    /\ UNCHANGED <<nq, hits, invdb, db_exists, si_yield, invframe>>

NextInv ==
    \/ SIMakeQueryId
    \/ \E q \in QueryIds : \E h \in SIHitLists : SISetHits(q, h)
    \/ \E q \in QueryIds : SIDelHits(q)
    \/ SIIterByDocid
    \/ SIConstruct

SpecInv == InitInv /\ [][NextInv]_vars

(* --------- IndexerConnection: add, close (indexerconnection.py) -------- *)

\* An open connection on an index of two documents, with cache "1" authored.
InitConn ==
    /\ docs = [d \in InitDocs |-> [id |-> d, vals |-> (FieldSlot :> FieldValue)]]
    /\ lastdocid = MaxDocs
    /\ meta_caches = EmptyMap
    /\ num_cache_slots = 0
    /\ hascache = FALSE
    /\ ic_caches = [set |-> FALSE, map |-> EmptyMap]
    /\ cache_manager = NoCache
    /\ nq = [c \in Caches |-> 1]
    /\ hits = [c \in Caches |-> [q \in QueryIds |->
                 IF q # 0 THEN <<>> ELSE IF c = "1" THEN <<2, 1>> ELSE <<1>>]]
    /\ raised = "none"
    /\ lastop = Op("init", NoCache, 0, 0)
    /\ hist = [c \in Caches |-> NoHist]
    /\ nops = 0
    /\ ProbeIdle
    /\ CompIdle

\* A step of the connection that may touch its own fields.
ConnStep ==
    /\ nops < MaxOps
    /\ nops' = nops + 1
    /\ UNCHANGED <<probevars, multivars, invvars, searchvars, storevars, morevars>>

\* 'raise errors.IndexerError("IndexerConnection has been closed")'
RaiseClosed(name, d) ==
    /\ ConnStep
    /\ raised' = "IndexerError"
    /\ lastop' = Op(name, cache_manager, d, 0)
    /\ UNCHANGED <<indexvars, connvars, cachevars, hist, lifevars>>

\* The ids of the documents in the index (their 'Q' terms).
IndexIds == {docs[d].id : d \in DOMAIN docs}

\* Mutant: the next docid is taken without looking for a conflict.
_allocate_id_NoCheck(ids, next) == <<next, next + 1>>

RECURSIVE FirstFree(_, _)
FirstFree(ids, next) == IF next \notin ids THEN next ELSE FirstFree(ids, next + 1)

\* _allocate_id(index, next_docid): the first id from next_docid on that no
\* document carries, and the new value of next_docid.
_allocate_id(ids, next) == <<FirstFree(ids, next), FirstFree(ids, next) + 1>>

\* The ids a caller may give to add: none, an id some document carried at
\* the start, or another one.
AddIds == {NoId} \cup InitDocs \cup {MaxDocs + 1}

\* IndexerConnection.add(document)
ConnAdd(id, newvals) ==
    IF ~ic_open THEN RaiseClosed("ICAddFailed", id)
    ELSE IF id # NoId /\ id \in IndexIds
    THEN /\ ConnStep
         /\ raised' = "DuplicatedIdError"
         /\ lastop' = Op("ICAddFailed", cache_manager, id, 0)
         /\ UNCHANGED <<indexvars, connvars, cachevars, hist, lifevars>>
    ELSE LET alloc == _allocate_id(IndexIds, next_docid)
             newid == IF id = NoId THEN alloc[1] ELSE id
         IN /\ ConnStep
            /\ lastdocid < MaxDocs + 2
            /\ next_docid' = IF id = NoId THEN alloc[2] ELSE next_docid
            /\ config_modified' = IF id = NoId THEN TRUE ELSE config_modified
            /\ docs' = (lastdocid + 1 :> [id |-> newid, vals |-> newvals]) @@ docs
            /\ lastdocid' = lastdocid + 1
            /\ co_ret' = newid
            /\ raised' = "none"
            /\ lastop' = OpRec("ICAdd", cache_manager, id, 0, newvals, FALSE)
            /\ hist' = HistDirty
            /\ UNCHANGED <<meta_caches, num_cache_slots, hascache, connvars, cachevars,
                           ic_open, stored_next, usermeta>>

\* IndexerConnection.replace on a connection that may be closed.
ConnReplace(id, xapid, newvals) ==
    IF ~ic_open THEN RaiseClosed("ICReplaceFailed", xapid)
    ELSE ICReplace(id, xapid, newvals)

\* IndexerConnection.delete on a connection that may be closed.
ConnDelete(id, xapid) ==
    IF ~ic_open THEN RaiseClosed("ICDeleteFailed", xapid)
    ELSE ICDelete(id, xapid)

\* IndexerConnection.apply_cached_items on a connection that may be closed.
ConnApply ==
    IF ~ic_open THEN RaiseClosed("ICApplyFailed", 0)
    ELSE ICApply

\* IndexerConnection.flush: the configuration is stored when modified.
ConnFlush ==
    IF ~ic_open THEN RaiseClosed("ICFlushFailed", 0)
    ELSE /\ ConnStep
         /\ stored_next' = IF config_modified THEN next_docid ELSE stored_next
         /\ config_modified' = FALSE
         /\ raised' = "none"
         /\ lastop' = Op("ICFlush", cache_manager, 0, 0)
         /\ UNCHANGED <<indexvars, connvars, cachevars, hist,
                        ic_open, next_docid, usermeta, co_ret>>

\* IndexerConnection.get_document(id): KeyError when no document has the
\* id, IndexerError ("Multiple documents found with same unique ID") when
\* the posting list of the id's term has a second entry.
ConnGetDocument(id) ==
    IF ~ic_open THEN RaiseClosed("ICGetDocumentFailed", id)
    ELSE /\ ConnStep
         /\ raised' = IF WithId(id) = {} THEN "KeyError"
                       ELSE IF Cardinality(WithId(id)) > 1 THEN "IndexerError"
                       ELSE "none"
         /\ co_ret' = IF Cardinality(WithId(id)) = 1 THEN Min(WithId(id)) ELSE co_ret
         /\ lastop' = Op(IF WithId(id) = {} THEN "ICGetDocumentFailed"
                         ELSE IF Cardinality(WithId(id)) > 1 THEN "ICGetDocumentMultiple"
                         ELSE "ICGetDocument", cache_manager, id, 0)
         /\ UNCHANGED <<indexvars, connvars, cachevars, hist,
                        ic_open, next_docid, config_modified, stored_next, usermeta>>

\* IndexerConnection.set_metadata(key, value)
ConnSetMetadata(value) ==
    IF ~ic_open THEN RaiseClosed("ICSetMetadataFailed", 0)
    ELSE /\ ConnStep
         /\ usermeta # value
         /\ usermeta' = value
         /\ raised' = "none"
         /\ lastop' = Op("ICSetMetadata", cache_manager, 0, 0)
         /\ UNCHANGED <<indexvars, connvars, cachevars, hist,
                        ic_open, next_docid, config_modified, stored_next, co_ret>>

\* IndexerConnection.close: returns at once when closed already; else
\* flushes, drops the index and closes the cache manager.
ConnClose ==
    /\ ConnStep
    /\ raised' = "none"
    /\ lastop' = Op("ICClose", cache_manager, 0, 0)
    /\ IF ~ic_open
       THEN UNCHANGED lifevars
       ELSE /\ stored_next' = IF config_modified THEN next_docid ELSE stored_next
            /\ config_modified' = FALSE
            /\ ic_open' = FALSE
            /\ UNCHANGED <<next_docid, usermeta, co_ret>>
    /\ UNCHANGED <<indexvars, connvars, cachevars, hist>>

NextConn ==
    \/ \E id \in AddIds : \E nv \in NewDocVals : ConnAdd(id, nv)
    \/ \E id \in XapIds : \E xapid \in {0, id} : \E nv \in NewDocVals :
          ConnReplace(id, xapid, nv)
    \/ \E id \in XapIds : \E xapid \in {0, id} : ConnDelete(id, xapid)
    \/ ConnApply
    \/ ConnFlush
    \/ \E id \in XapIds : ConnGetDocument(id)
    \/ \E v \in {"", "v"} : ConnSetMetadata(v)
    \/ \E c \in Caches \cup {NoCache} : SetCacheManager(c)
    \/ ConnClose

SpecConn == InitConn /\ [][NextConn]_vars

\* The operations on the documents, replace and delete with any docid of
\* the index as xapid.
NextUid ==
    \/ \E id \in AddIds : \E nv \in NewDocVals : ConnAdd(id, nv)
    \/ \E id \in XapIds : \E xapid \in {0} \cup XapIds : \E nv \in NewDocVals :
          ConnReplace(id, xapid, nv)
    \/ \E id \in XapIds : \E xapid \in {0} \cup XapIds : ConnDelete(id, xapid)
    \/ \E id \in XapIds : ConnGetDocument(id)

SpecUid == InitConn /\ [][NextUid]_vars

(* ------------------- frame of the further components ------------------- *)

\* The index, the connection, the coordinator, the inversion, the search and
\* the cache database, as the components below leave them.
coreframe == <<indexvars, connvars, cachevars, raised, lastop, hist, nops, probevars,
               multivars, invvars, searchvars, lifevars, storevars>>

\* Their state after construction, nothing done.
CoreIdle ==
    /\ docs = [d \in InitDocs |-> [id |-> d, vals |-> (FieldSlot :> FieldValue)]]
    /\ lastdocid = MaxDocs
    /\ meta_caches = EmptyMap
    /\ num_cache_slots = 0
    /\ hascache = FALSE
    /\ ic_caches = [set |-> FALSE, map |-> EmptyMap]
    /\ cache_manager = NoCache
    /\ nq = [c \in Caches |-> 1]
    /\ hits = [c \in Caches |-> [q \in QueryIds |-> <<>>]]
    /\ raised = "none"
    /\ lastop = Op("init", NoCache, 0, 0)
    /\ hist = [c \in Caches |-> NoHist]
    /\ nops = 0
    /\ ProbeIdle
    /\ MultiIdle
    /\ InvIdle
    /\ SearchIdle
    /\ LifeIdle
    /\ StoreIdle

(* --------- XapianCacheManager: the database (xapian_manager.py) -------- *)

InitStore == InitConn

storeframe == <<indexvars, connvars, cachevars, raised, lastop, hist, nops, probevars,
                multivars, invvars, searchvars, lifevars, morevars>>

\* Values a caller stores under the hit-list key.
HitValues == {<<7>>, <<8>>}

\* str(n) of a query id, as its decimal digits.
RECURSIVE StrOfInt(_)
StrOfInt(n) == IF n < 10 THEN <<n>> ELSE StrOfInt(n \div 10) \o <<n % 10>>

\* int(str) of a stored query id.
RECURSIVE IntOfStr(_)
IntOfStr(str) ==
    IF Len(str) = 1 THEN str[1]
    ELSE IntOfStr(SubSeq(str, 1, Len(str) - 1)) * 10 + str[Len(str)]

\* Mutant: the read creates the database it does not find.
GetOpens_Creating(s) ==
    IF s.db = "none"
    THEN [s EXCEPT !.exists = TRUE, !.db = "read", !.writable = FALSE, !.view = s.disk]
    ELSE s

\* __getitem__: the manager's database after the call; a manager without
\* handle opens the database read-only, unless none exists at the path.
GetOpens(s) ==
    IF s.db = "none" /\ s.exists
    THEN [s EXCEPT !.db = "read", !.writable = FALSE, !.view = s.disk]
    ELSE s

\* __getitem__: the value returned, '' when no database exists.
GetValue(s, key) == IF s.db = "none" /\ ~s.exists THEN EmptyStr ELSE GetOpens(s).view[key]

\* Mutant: the value is not stored.
SetItem_NoWrite(s, key, value) == s

\* Mutant: the handle is opened for writing by the flag alone.
SetItemOpens_ByFlag(s) == ~s.writable

\* __setitem__, __delitem__: 'if self.db is None or not self.writable'
SetItemOpens(s) == s.db = "none" \/ ~s.writable

\* __setitem__ (and __delitem__ with ''): a manager without handle or with a
\* read-only one opens the database for writing, creating it if need be;
\* the value is set in the handle, not yet committed.
SetItem(s, key, value) ==
    LET opened == IF SetItemOpens(s)
                  THEN [s EXCEPT !.exists = TRUE, !.db = "write", !.writable = TRUE,
                                 !.view = s.disk]
                  ELSE s
    IN [opened EXCEPT !.view[key] = value]

\* Mutant: flush never commits.
FlushReturnsEarly_Always(s) == TRUE

\* flush: 'if self.db is None or not self.writable: return'
FlushReturnsEarly(s) == s.db = "none" \/ ~s.writable

\* The pairs written since the last completed flush, after one more write.
Since(key, value) == st_since \cup {<<key, value>>}

\* XapianCacheManager.__getitem__(key)
StGetItem(key) ==
    /\ st' = GetOpens(st)
    /\ st_op' = StOp("getitem", key, GetValue(st, key), "none")
    /\ UNCHANGED <<st_closed, st_flushed, st_since, st_ids, storeframe>>

\* XapianCacheManager.__setitem__(key, value) on the hit-list key
StSetItem(key, value) ==
    /\ st' = SetItem(st, key, value)
    /\ st_op' = StOp("setitem", key, value, "none")
    /\ st_since' = Since(key, value)
    /\ UNCHANGED <<st_closed, st_flushed, st_ids, storeframe>>

\* XapianCacheManager.__delitem__(key) on the hit-list key
StDelItem(key) ==
    /\ st' = SetItem(st, key, EmptyStr)
    /\ st_op' = StOp("delitem", key, EmptyStr, "none")
    /\ st_since' = Since(key, EmptyStr)
    /\ UNCHANGED <<st_closed, st_flushed, st_ids, storeframe>>

\* flush: the database after the call; db.flush() commits what the handle
\* holds.
Flushed(s) == IF FlushReturnsEarly(s) THEN s ELSE [s EXCEPT !.disk = s.view]

\* close: the database after the call; it returns when there is no handle,
\* and closing a handle opened for writing commits what it holds.
Closed(s) ==
    IF s.db = "none" THEN s
    ELSE [s EXCEPT !.db = "none", !.disk = IF s.db = "write" THEN s.view ELSE s.disk]

\* XapianCacheManager.flush: commits what the handle holds.
StFlush ==
    /\ st' = Flushed(st)
    /\ st_op' = StOp("flush", "H", EmptyStr, "none")
    /\ st_flushed' = IF st.db = "none" THEN st.disk ELSE st.view
    /\ st_since' = {}
    /\ UNCHANGED <<st_closed, st_ids, storeframe>>

\* XapianCacheManager.close: returns when there is no handle; closing a
\* handle opened for writing commits what it holds.
StClose ==
    /\ st' = Closed(st)
    /\ st_op' = StOp("close", "H", EmptyStr, "none")
    /\ st_closed' = TRUE
    /\ UNCHANGED <<st_flushed, st_since, st_ids, storeframe>>

\* The query id stored for a representation, NoId for ''.
StoredId(str) == IF str = EmptyStr THEN NoId ELSE IntOfStr(str)

\* KeyValueStoreCacheManager.get_queryid(query_str)
StGetQueryId(r) ==
    /\ st' = GetOpens(st)
    /\ st_op' = StOp("get_queryid", r, StoredId(GetValue(st, QKey(r))), "none")
    /\ UNCHANGED <<st_closed, st_flushed, st_since, st_ids, storeframe>>

\* KeyValueStoreCacheManager.get_or_make_queryid(query_str): the id stored
\* for the representation, else the next id, which is stored for it.
StGetOrMakeQueryId(r) ==
    LET found == GetValue(st, QKey(r))
        s1 == GetOpens(st)
        nextstr == GetValue(s1, "I")
        thisid == IF nextstr = EmptyStr THEN 0 ELSE IntOfStr(nextstr)
        s2 == SetItem(GetOpens(s1), QKey(r), StrOfInt(thisid))
        s3 == SetItem(s2, "I", StrOfInt(thisid + 1))
        ret == IF found # EmptyStr THEN IntOfStr(found) ELSE thisid
    IN /\ st' = IF found # EmptyStr THEN s1 ELSE s3
       /\ st_op' = StOp("get_or_make_queryid", r, ret, "none")
       /\ st_since' = IF found # EmptyStr THEN st_since
                      ELSE st_since \cup {<<QKey(r), StrOfInt(thisid)>>,
                                          <<"I", StrOfInt(thisid + 1)>>}
       /\ st_ids' = IF st_ids[r] = NoId THEN [st_ids EXCEPT ![r] = ret] ELSE st_ids
       /\ UNCHANGED <<st_closed, st_flushed, storeframe>>

\* The process ends without flush or close and a manager is constructed
\* on the same path: what was not committed is gone.
StCrash ==
    /\ st' = [st EXCEPT !.db = "none", !.writable = FALSE, !.view = st.disk]
    /\ st_op' = StOp("init", "H", EmptyStr, "none")
    /\ st_closed' = FALSE
    /\ st_flushed' = st.disk
    /\ st_since' = {}
    /\ st_ids' = [r \in QueryReprs |-> StoredId(st.disk[QKey(r)])]
    /\ UNCHANGED storeframe

NextStore ==
    \/ \E k \in StKeys : StGetItem(k)
    \/ \E v \in HitValues : StSetItem("H", v)
    \/ StDelItem("H")
    \/ StFlush
    \/ StClose
    \/ \E r \in QueryReprs : StGetQueryId(r)
    \/ \E r \in QueryReprs : StGetOrMakeQueryId(r)
    \/ StCrash

SpecStore == InitStore /\ [][NextStore]_vars

(* ------- XapianCacheManager: the calls of one caller (xapian_manager.py) ------- *)

InitCall == InitConn

callframe == <<coreframe, qidvars, termvars, closevars, httpvars>>

\* keys: the keys yielded, those of the metadata with a value whose first
\* character is upper case (every key of the cache is); none when no
\* database exists at the path.
KeysOf(s) ==
    IF s.db = "none" /\ ~s.exists THEN {}
    ELSE {k \in StKeys : GetOpens(s).view[k] # EmptyStr}

\* XapianCacheManager.__getitem__(key)
CallGet(key) ==
    /\ cmgr' = GetOpens(cmgr)
    /\ cmgr_op' = CallOp("getitem", key, GetValue(cmgr, key), "none")
    /\ UNCHANGED <<cmgr_last, callframe>>

\* XapianCacheManager.__setitem__(key, value); the handle set_metadata is
\* called on is the manager's after the opening.
CallSet(key, value) ==
    /\ cmgr' = SetItem(cmgr, key, value)
    /\ cmgr_last' = [cmgr_last EXCEPT ![key] = value]
    /\ cmgr_op' = CallOp("setitem", key, value, SetItem(cmgr, key, value).db)
    /\ UNCHANGED callframe

\* XapianCacheManager.__delitem__(key)
CallDel(key) ==
    /\ cmgr' = SetItem(cmgr, key, EmptyStr)
    /\ cmgr_last' = [cmgr_last EXCEPT ![key] = EmptyStr]
    /\ cmgr_op' = CallOp("delitem", key, EmptyStr, SetItem(cmgr, key, EmptyStr).db)
    /\ UNCHANGED callframe

\* XapianCacheManager.keys(), iterated to its end
CallKeysList ==
    /\ cmgr' = GetOpens(cmgr)
    /\ cmgr_op' = CallOp("keys", "H", KeysOf(cmgr), "none")
    /\ UNCHANGED <<cmgr_last, callframe>>

\* XapianCacheManager.flush
CallFlush ==
    /\ cmgr' = Flushed(cmgr)
    /\ cmgr_op' = CallOp("flush", "H", EmptyStr, "none")
    /\ UNCHANGED <<cmgr_last, callframe>>

\* XapianCacheManager.close
CallClose ==
    /\ cmgr' = Closed(cmgr)
    /\ cmgr_op' = CallOp("close", "H", EmptyStr, "none")
    /\ UNCHANGED <<cmgr_last, callframe>>

\* A manager constructed on the path after the one before was closed.
CallConstruct ==
    /\ cmgr.db = "none"
    /\ cmgr' = [cmgr EXCEPT !.writable = FALSE]
    /\ cmgr_last' = [k \in CallKeys |-> NotWritten]
    /\ cmgr_op' = CallOp("init", "H", EmptyStr, "none")
    /\ UNCHANGED callframe

NextCall ==
    \/ \E k \in CallKeys : CallGet(k)
    \/ \E k \in CallKeys : \E v \in HitValues : CallSet(k, v)
    \/ \E k \in CallKeys : CallDel(k)
    \/ CallKeysList
    \/ CallFlush
    \/ CallClose
    \/ CallConstruct

SpecCall == InitCall /\ [][NextCall]_vars

(* ------------ SearchConnection (secore/searchconnection.py) ------------ *)

InitSearch ==
    /\ docs = [d \in InitDocs |-> [id |-> d, vals |-> (FieldSlot :> FieldValue)]]
    /\ lastdocid = MaxDocs
    /\ meta_caches = EmptyMap
    /\ num_cache_slots = 0
    /\ hascache = FALSE
    /\ ic_caches = [set |-> FALSE, map |-> EmptyMap]
    /\ cache_manager = NoCache
    /\ nq = [c \in Caches |-> 1]
    /\ hits = [c \in Caches |-> [q \in QueryIds |-> <<>>]]
    /\ raised = "none"
    /\ lastop = Op("init", NoCache, 0, 0)
    /\ hist = [c \in Caches |-> NoHist]
    /\ nops = 0
    /\ ProbeIdle
    /\ MultiIdle
    /\ InvIdle
    /\ SearchIdle
    /\ RestIdle

searchframe == <<indexvars, connvars, cachevars, raised, lastop, hist, nops, probevars,
                 multivars, invvars, restvars>>

\* FieldMappings.get_slot: the slot of a field, -1 for KeyError.
GetSlot(config, field) == IF field \in DOMAIN config THEN config[field] ELSE -1

\* The slots the facet spy is given: those of the fields the loaded
\* configuration marks as facets.
FacetSlots(config, getfacets) ==
    IF getfacets THEN {config[f] : f \in DOMAIN config} ELSE {}

\* The concurrent writer flushes: a new revision, with the configuration
\* unchanged or with one more facet field in the next free slot.
WriterCommit(newfield) ==
    /\ db_rev < MaxCommits
    /\ db_rev' = db_rev + 1
    /\ disk_config' =
          IF newfield = NoField \/ newfield \in DOMAIN disk_config THEN disk_config
          ELSE (newfield :> Cardinality(DOMAIN disk_config)) @@ disk_config
    /\ UNCHANGED <<sc_rev, sc_config, sc_pc, enq, sc_result, searchframe>>

\* SearchConnection.search up to the retry loop: the Enquire gets the sort
\* slot, the facet spy the facet slots, both from the configuration loaded.
SearchBegin(sortby, getfacets) ==
    /\ sc_pc = "idle"
    /\ IF sortby # NoField /\ GetSlot(sc_config, sortby) = -1
       THEN /\ sc_result' = [NoResult EXCEPT !.kind = "SearchError"]
            /\ UNCHANGED <<sc_pc, enq>>
       ELSE /\ enq' = [sortby |-> sortby, getfacets |-> getfacets,
                       sort |-> GetSlot(sc_config, sortby),
                       facets |-> FacetSlots(sc_config, getfacets)]
            /\ sc_pc' = "get_mset"
            /\ sc_result' = NoResult
    /\ UNCHANGED <<db_rev, disk_config, sc_rev, sc_config, searchframe>>

\* Mutant: the error leaves the search.
OnModified_Raise == "raise"

\* search: what the retry loop does with a DatabaseModifiedError.
OnModified == "reopen"

\* enq.get_mset raises DatabaseModifiedError, which it may whenever the
\* writer committed after the revision the connection references; the
\* handler calls reopen(), which reopens the database and reloads the
\* configuration, and the loop calls get_mset again.
GetMsetModified ==
    /\ sc_pc = "get_mset"
    /\ sc_rev < db_rev
    /\ IF OnModified = "reopen"
       THEN /\ sc_rev' = db_rev
            /\ sc_config' = disk_config
            /\ sc_result' = [sc_result EXCEPT !.retries = @ + 1]
            /\ UNCHANGED sc_pc
       ELSE /\ sc_result' = [sc_result EXCEPT !.kind = "DatabaseModifiedError"]
            /\ sc_pc' = "idle"
            /\ UNCHANGED <<sc_rev, sc_config>>
    /\ UNCHANGED <<db_rev, disk_config, enq, searchframe>>

\* enq.get_mset succeeds and search returns SearchResults(self, enq, query,
\* mset, self._field_mappings, tagspy, facetspy, facetfields).
GetMsetReturns ==
    /\ sc_pc = "get_mset"
    /\ sc_result' = [kind |-> "results", rev |-> sc_rev, sort |-> enq.sort,
                     facets |-> enq.facets, mappings |-> sc_config,
                     retries |-> sc_result.retries]
    /\ sc_pc' = "idle"
    /\ UNCHANGED <<db_rev, disk_config, sc_rev, sc_config, enq, searchframe>>

NextSearch ==
    \/ \E f \in FieldNames \cup {NoField} : WriterCommit(f)
    \/ \E f \in FieldNames \cup {NoField} : \E g \in BOOLEAN : SearchBegin(f, g)
    \/ GetMsetModified
    \/ GetMsetReturns

SpecSearch == InitSearch /\ [][NextSearch]_vars

\* The thread that called search keeps running: a pending get_mset either
\* raises DatabaseModifiedError or returns. The writer is under no
\* obligation, and commits at most MaxCommits times.
SpecSearchFair == SpecSearch /\ WF_vars(GetMsetModified \/ GetMsetReturns)

(* ---- XapianSelfInvertingCacheManager with given query ids (xapian_manager.py) ---- *)

InitQid == InitConn

qidframe == <<coreframe, termvars, callvars, closevars, httpvars>>

\* Hit lists stored for the queries of this cache.
QidHitLists == {<<>>, <<2>>, <<16, 2>>}

QidOp(name, err) == [name |-> name, raised |-> err]

\* os.path.exists(self.dbpath): the cache database is created by the first
\* write, and every write of this cache follows the storing of a query id.
QidDbExists == qi_ids # {}

\* KeyValueStoreCacheManager.set_queryid(query_str, queryid): the cache
\* holds the id given; the write invalidates the inversion.
QidSetQueryId(qid) ==
    /\ qi_ids' = qi_ids \cup {qid}
    /\ qi_inverted' = FALSE
    /\ qi_invdb' = IF qi_inverted THEN <<>> ELSE qi_invdb
    /\ qi_op' = QidOp("set_queryid", "none")
    /\ UNCHANGED <<qi_hits, qidframe>>

\* KeyValueStoreCacheManager.get_or_make_queryid for a new query: the next
\* id, 0 for the first query and one more than the largest id held after.
QidMakeQueryId ==
    LET thisid == IF qi_ids = {} THEN 0 ELSE Max(qi_ids) + 1
    IN /\ thisid <= MaxQid
       /\ qi_ids' = qi_ids \cup {thisid}
       /\ qi_inverted' = FALSE
       /\ qi_invdb' = IF qi_inverted THEN <<>> ELSE qi_invdb
       /\ qi_op' = QidOp("get_or_make_queryid", "none")
       /\ UNCHANGED <<qi_hits, qidframe>>

\* set_hits(queryid, docids) for a query id the cache holds.
QidSetHits(qid, h) ==
    /\ qid \in qi_ids
    /\ qi_hits' = [qi_hits EXCEPT ![qid] = h]
    /\ qi_inverted' = FALSE
    /\ qi_invdb' = IF qi_inverted THEN <<>> ELSE qi_invdb
    /\ qi_op' = QidOp("set_hits", "none")
    /\ UNCHANGED <<qi_ids, qidframe>>

\* KeyValueStoreCacheManager.iter_queryids: the query ids of the cache, in
\* increasing order.
RECURSIVE QidSequence(_)
QidSequence(S) == IF S = {} THEN <<>> ELSE <<Min(S)>> \o QidSequence(S \ {Min(S)})

\* prepare_iter_by_docid, the loop: the k-th query id yielded gets the
\* document invdb.add_document numbers k.
QidAdded(k) ==
    [i \in 1..k |-> [qid |-> QidSequence(qi_ids)[i],
                     doc |-> QueryDoc(qi_hits[QidSequence(qi_ids)[i]])]]

\* The first document whose number is not its query id + 1, 0 if none:
\* where 'assert(newdocid == qid + 1)' fails.
QidFirstFailure ==
    LET bad == {i \in 1..Cardinality(qi_ids) : i # QidSequence(qi_ids)[i] + 1}
    IN IF bad = {} THEN 0 ELSE Min(bad)

\* prepare_iter_by_docid
QidPrepare ==
    /\ qi_inverted' = (qi_inverted \/ ~QidDbExists \/ QidFirstFailure = 0)
    /\ qi_invdb' = IF qi_inverted \/ ~QidDbExists THEN qi_invdb
                   ELSE IF QidFirstFailure = 0 THEN QidAdded(Cardinality(qi_ids))
                   ELSE QidAdded(QidFirstFailure)
    /\ qi_op' = QidOp("prepare_iter_by_docid",
                      IF ~qi_inverted /\ QidDbExists /\ QidFirstFailure # 0
                      THEN "AssertionError" ELSE "none")
    /\ UNCHANGED <<qi_ids, qi_hits, qidframe>>

NextQid ==
    \/ \E qid \in GivenQueryIds : QidSetQueryId(qid)
    \/ QidMakeQueryId
    \/ \E qid \in GivenQueryIds : \E h \in QidHitLists : QidSetHits(qid, h)
    \/ QidPrepare

SpecQid == InitQid /\ [][NextQid]_vars

(* ------- the docid terms of the inverted database (xapian_manager.py) ------- *)

\* Docids the probe is run with: every docid up to MaxProbeDocid, and the
\* docids around the changes of the number of hexadecimal digits, up to
\* the eight digits of a 32-bit docid.
ProbeDocids ==
    (1..MaxProbeDocid) \cup {255, 256, 257, 4095, 4096, 65535, 65536, 1048575, 1048576,
                            16777215, 16777216, 268435455, 268435456, 2147483647}

\* A term as the bytes of its string: '0'..'9' are 48..57, 'a'..'f' 97..102.
TermBytes(term) == [i \in DOMAIN term |-> IF term[i] < 10 THEN 48 + term[i] ELSE 87 + term[i]]

InitTerm ==
    /\ CoreIdle
    /\ QidIdle
    /\ CallIdle
    /\ CloseIdle
    /\ HttpIdle
    /\ d1 \in ProbeDocids
    /\ d2 \in ProbeDocids
    /\ term1 = <<>> /\ term2 = <<>> /\ back1 = 0
    /\ tphase = "init"

termframe == <<coreframe, qidvars, callvars, closevars, httpvars>>

\* prepare_iter_by_docid: the terms two docids of hit lists are stored under.
TermStore ==
    /\ tphase = "init"
    /\ term1' = DocidTerm(d1)
    /\ term2' = DocidTerm(d2)
    /\ tphase' = "stored"
    /\ UNCHANGED <<d1, d2, back1, termframe>>

\* iter_by_docid: the docid of a term of the inverted database.
TermRead ==
    /\ tphase = "stored"
    /\ back1' = TermDocid(term1)
    /\ tphase' = "read"
    /\ UNCHANGED <<d1, d2, term1, term2, termframe>>

NextTerm == TermStore \/ TermRead

SpecTerm == InitTerm /\ [][NextTerm]_vars

(* ------ IndexerConnection: flush and close (indexerconnection.py) ------ *)

InitClose == InitConn

closeframe == <<coreframe, qidvars, termvars, callvars, httpvars>>

\* The calls of flush and close that may raise an error of the database:
\* _store_config, _index.flush, cache_manager.flush, cache_manager.close.
FailPoints == {"none", "store_config", "index_flush", "cm_flush", "cm_close"}

\* flush reaches the call: _store_config is called when the configuration
\* was modified, the manager's db.flush() when it holds a writable handle.
FlushReaches(fail) ==
    \/ fail = "none"
    \/ fail = "store_config" /\ cl_modified
    \/ fail = "index_flush"
    \/ fail = "cm_flush" /\ cl_cm /\ cl_cmdb = "write"

\* flush on an open connection: what it leaves and whether it raised.
\* _store_config resets _config_modified; _index.flush commits the index;
\* cache_manager.flush commits the manager's writes.
FlushOutcome(fail) ==
    [modified |-> IF fail = "store_config" THEN cl_modified ELSE FALSE,
     pending |-> IF fail \in {"store_config", "index_flush"} THEN cl_pending ELSE FALSE,
     cmdirty |-> IF cl_cm /\ cl_cmdb = "write" /\ fail = "none" THEN FALSE ELSE cl_cmdirty,
     raised |-> IF fail = "none" THEN "none" ELSE "DatabaseError"]

ClClosedError(name) ==
    /\ cl_op' = ClOp(name, "IndexerError")
    /\ UNCHANGED <<cl_index, cl_modified, cl_pending, cl_cm, cl_cmdb, cl_cmdirty>>

\* IndexerConnection.set_cache_manager
ClSetCacheManager(attach) ==
    /\ cl_cm' = attach
    /\ cl_op' = ClOp("set_cache_manager", "none")
    /\ UNCHANGED <<cl_index, cl_modified, cl_pending, cl_cmdb, cl_cmdirty, closeframe>>

\* set_hits on the cache manager by its author: a write through a handle
\* opened for writing.
ClSetHits ==
    /\ cl_cmdb' = "write"
    /\ cl_cmdirty' = TRUE
    /\ cl_op' = ClOp("set_hits", "none")
    /\ UNCHANGED <<cl_index, cl_modified, cl_pending, cl_cm, closeframe>>

\* IndexerConnection.add of a document without id: the index and the
\* configuration (the next docid) are modified.
ClAdd ==
    /\ IF ~cl_index THEN ClClosedError("add")
       ELSE /\ cl_modified' = TRUE
            /\ cl_pending' = TRUE
            /\ cl_op' = ClOp("add", "none")
            /\ UNCHANGED <<cl_index, cl_cm, cl_cmdb, cl_cmdirty>>
    /\ UNCHANGED closeframe

\* IndexerConnection.delete of a document; when it carried cached ranks and
\* a cache manager is set, remove_hits writes to the manager.
ClDelete(ranked) ==
    /\ IF ~cl_index THEN ClClosedError("delete")
       ELSE /\ cl_pending' = TRUE
            /\ cl_cmdb' = IF cl_cm /\ ranked THEN "write" ELSE cl_cmdb
            /\ cl_cmdirty' = IF cl_cm /\ ranked THEN TRUE ELSE cl_cmdirty
            /\ cl_op' = ClOp("delete", "none")
            /\ UNCHANGED <<cl_index, cl_modified, cl_cm>>
    /\ UNCHANGED closeframe

\* IndexerConnection.flush
ClFlush(fail) ==
    /\ fail # "cm_close"
    /\ IF ~cl_index THEN fail = "none" /\ ClClosedError("flush")
       ELSE /\ FlushReaches(fail)
            /\ cl_modified' = FlushOutcome(fail).modified
            /\ cl_pending' = FlushOutcome(fail).pending
            /\ cl_cmdirty' = FlushOutcome(fail).cmdirty
            /\ cl_op' = ClOp("flush", FlushOutcome(fail).raised)
            /\ UNCHANGED <<cl_index, cl_cm, cl_cmdb>>
    /\ UNCHANGED closeframe

\* close runs cache_manager.close(): flush did not raise and a manager is
\* set.
CloseClosesManager(fail) == cl_cm /\ fail \in {"none", "cm_close"}

\* IndexerConnection.close: returns at once when closed; else flush and
\* _index.close() in a try whose finally drops the index, and after it
\* cache_manager.close(), which commits and drops the manager's handle.
ClClose(fail) ==
    /\ IF ~cl_index
       THEN /\ fail = "none"
            /\ cl_op' = ClOp("close", "none")
            /\ UNCHANGED <<cl_index, cl_modified, cl_pending, cl_cm, cl_cmdb, cl_cmdirty>>
       ELSE /\ \/ fail # "cm_close" /\ FlushReaches(fail)
               \/ fail = "cm_close" /\ cl_cm /\ cl_cmdb # "none"
            /\ cl_index' = FALSE
            /\ cl_modified' = FALSE
            /\ cl_pending' = IF fail = "cm_close" THEN FALSE ELSE FlushOutcome(fail).pending
            /\ cl_cmdb' = IF CloseClosesManager(fail) /\ fail = "none" THEN "none" ELSE cl_cmdb
            /\ cl_cmdirty' = IF fail = "cm_close" THEN FlushOutcome("none").cmdirty
                             ELSE IF CloseClosesManager(fail) THEN FALSE
                             ELSE FlushOutcome(fail).cmdirty
            /\ cl_op' = ClOp("close", IF fail = "none" THEN "none" ELSE "DatabaseError")
            /\ UNCHANGED cl_cm
    /\ UNCHANGED closeframe

NextClose ==
    \/ \E attach \in BOOLEAN : ClSetCacheManager(attach)
    \/ ClSetHits
    \/ ClAdd
    \/ \E ranked \in BOOLEAN : ClDelete(ranked)
    \/ \E fail \in FailPoints : ClFlush(fail)
    \/ \E fail \in FailPoints : ClClose(fail)

SpecClose == InitClose /\ [][NextClose]_vars

(* ---------- the response cache (djape/ext/cherrypy/lib/caching.py) ---------- *)

InitHttp == InitConn

httpframe == <<coreframe, qidvars, termvars, callvars, closevars>>

\* get(invalid_methods=("POST", "PUT", "DELETE"), ...)
invalid_methods == {"POST", "PUT", "DELETE"}
Methods == {"GET"} \cup invalid_methods

\* len(obj[2]) of the responses cached.
BodySizes == {1, 2}

\* time.time() advances.
HcTick ==
    /\ hc_now < MaxTime
    /\ hc_now' = hc_now + 1
    /\ UNCHANGED <<hc_cache, hc_expirations, hc_cursize, hc_put, hc_removed, hc_rq,
                   httpframe>>

\* MemoryCache.put up to the check for space: obj_size, total_size =
\* self.cursize + obj_size and the expiration time are computed; the put
\* ends here when there is no space.
HcPutCheck(key, size) ==
    /\ hc_put = NoPut
    /\ hc_cursize + size < CachingMaxSize
    /\ hc_put' = [key |-> key, size |-> size, total |-> hc_cursize + size,
                  exp |-> hc_now + CachingDelay]
    /\ UNCHANGED <<hc_cache, hc_expirations, hc_cursize, hc_now, hc_removed, hc_rq,
                   httpframe>>

\* MemoryCache.put, the store: the (size, key) is appended to the bucket of
\* the expiration time, the object stored under the key and cursize set to
\* the total computed before.
HcPutStore ==
    /\ hc_put # NoPut
    /\ hc_expirations' = [hc_expirations EXCEPT
                             ![hc_put.exp] = Append(@, <<hc_put.size, hc_put.key>>)]
    /\ hc_cache' = [hc_cache EXCEPT ![hc_put.key] = [size |-> hc_put.size, exp |-> hc_put.exp]]
    /\ hc_cursize' = hc_put.total
    /\ hc_put' = NoPut
    /\ UNCHANGED <<hc_now, hc_removed, hc_rq, httpframe>>

\* expire_cache, the objects of one bucket: 'del self.cache[obj_key]' and
\* 'self.cursize -= obj_size', or nothing on KeyError.
RECURSIVE ExpireObjects(_, _)
ExpireObjects(objects, acc) ==
    IF objects = <<>> THEN acc
    ELSE LET size == Head(objects)[1]
             key == Head(objects)[2]
         IN ExpireObjects(Tail(objects),
               IF acc.cache[key] = NoObj THEN acc
               ELSE [cache |-> [acc.cache EXCEPT ![key] = NoObj],
                     cursize |-> acc.cursize - size,
                     removed |-> acc.removed \cup {<<key, acc.cache[key].exp, hc_now>>}])

\* expire_cache, one bucket whose expiration_time <= now: its objects are
\* removed and the bucket deleted.
HcExpireBucket(x) ==
    /\ hc_expirations[x] # <<>>
    /\ x <= hc_now
    /\ LET done == ExpireObjects(hc_expirations[x],
                       [cache |-> hc_cache, cursize |-> hc_cursize, removed |-> {}])
       IN /\ hc_cache' = done.cache
          /\ hc_cursize' = done.cursize
          /\ hc_removed' = done.removed
    /\ hc_expirations' = [hc_expirations EXCEPT ![x] = <<>>]
    /\ UNCHANGED <<hc_now, hc_put, hc_rq, httpframe>>

\* The caching tool's get for a request of a method and a resource:
\* MemoryCache.delete ('self.cache.pop(self.key)', KeyError when the key is
\* not held) for an invalidating method, else MemoryCache.get; a cached
\* copy that validate_since finds not modified ends in HTTPError 304.
ToolGet(method, key, notmodified) ==
    /\ IF method \in invalid_methods
       THEN IF hc_cache[key] = NoObj
            THEN /\ hc_rq' = Rq(method, key, "unset", "unset", "none", "KeyError", FALSE)
                 /\ UNCHANGED hc_cache
            ELSE /\ hc_cache' = [hc_cache EXCEPT ![key] = NoObj]
                 /\ hc_rq' = Rq(method, key, "False", "False", "False", "none", FALSE)
       ELSE /\ UNCHANGED hc_cache
            /\ hc_rq' = IF hc_cache[key] = NoObj
                        THEN Rq(method, key, "False", "True", "False", "none", FALSE)
                        ELSE IF notmodified
                        THEN Rq(method, key, "True", "False", "none", "HTTPError 304", TRUE)
                        ELSE Rq(method, key, "True", "False", "True", "none", TRUE)
    /\ UNCHANGED <<hc_expirations, hc_cursize, hc_now, hc_put, hc_removed, httpframe>>

NextHttp ==
    \/ HcTick
    \/ \E k \in HcKeys : \E size \in BodySizes : HcPutCheck(k, size)
    \/ HcPutStore
    \/ \E x \in 0..(MaxTime + CachingDelay) : HcExpireBucket(x)
    \/ \E m \in Methods : \E k \in HcKeys : \E nm \in BOOLEAN : ToolGet(m, k, nm)

SpecHttp == InitHttp /\ [][NextHttp]_vars

(* ------------------------------- claims -------------------------------- *)

ApplyOps == {"CMApply", "ICApply"}

\* The slot range of a registered cache: [base, base + num_cached_queries).
SlotRange(c) ==
    LET base == cache_manager_slot_start(meta_caches, c)
    IN base..(base + num_cached_queries(c) - 1)

\* C1: the slot ranges of any two distinct caches registered in the index's
\* 'caches' metadata are disjoint, whatever the order of the applications
\* and the changes of the caches' query counts in between.
C1_SlotRangesDisjoint ==
    \A c1 \in DOMAIN meta_caches : \A c2 \in DOMAIN meta_caches :
        c1 # c2 => SlotRange(c1) \cap SlotRange(c2) = {}

\* The ranked documents of a merged search through cache c follow the
\* cache's own hit list, for every query id of c.
FollowsHitLists(c) ==
    \A q \in iter_queryids(c) :
        RankedPart(c, q) = SelectSeq(hits[c][q], LAMBDA d : d \in DOMAIN docs)

\* C2: the first application of a cache to an index to which another cache
\* was applied before leaves every value that application wrote unchanged
\* on every document, and afterwards a merged search through the cache just
\* applied returns the order of its own hit lists.
C2_ApplyKeepsOtherCache ==
    [][\A b \in Caches :
         (/\ lastop'.op \in ApplyOps /\ lastop'.c = b
          /\ ~hist[b].done
          /\ \E a \in Caches \ {b} : hist[a].done) =>
             /\ \A a \in Caches \ {b} : \A w \in hist[a].wrote :
                  (w[1] \in DOMAIN docs /\ w[3] \in DOMAIN docs[w[1]].vals) =>
                      /\ w[3] \in DOMAIN docs'[w[1]].vals
                      /\ docs'[w[1]].vals[w[3]] = docs[w[1]].vals[w[3]]
             /\ FollowsHitLists(b)' ]_vars

\* C3: a delete through the connection with a cache manager set removes
\* the document from every hit list of every cache for which it holds a
\* rank slot, and a later application of such a cache writes nothing on a
\* document with that docid.
C3_DeleteRemovesFromEveryCache ==
    [][ /\ (lastop'.op = "ICDelete" /\ cache_manager # NoCache) =>
             \A c \in Caches : \A w \in hist[c].wrote :
                 (w[1] = lastop'.d /\ w[3] \in DOMAIN docs[w[1]].vals) =>
                     lastop'.d \notin Range(hits'[c][w[2]])
        /\ lastop'.op \in ApplyOps =>
             \A d \in hist[lastop'.c].gone \cap DOMAIN docs : docs'[d] = docs[d]
      ]_vars

\* The hit list of (c, q) as last applied, without the documents that are
\* no longer in the index.
Surviving(c, q) == SelectSeq(hist[c].snap[q], LAMBDA d : d \in DOMAIN docs)

IsPrefix(a, b) == Len(a) <= Len(b) /\ SubSeq(b, 1, Len(a)) = a

KeepsCacheValues(d, newvals) ==
    \A s \in DOMAIN docs[d].vals :
        (s >= BASE_CACHE_SLOT /\ s \notin DOMAIN newvals) =>
            /\ s \in DOMAIN docs'[d].vals
            /\ docs'[d].vals[s] = docs[d].vals[s]

C6_RankRoundTrip == phase \in {"cm_read", "ic_read"} => dec1 = r1

C6_Witness == phase = "ic_read" /\ r1 = CACHE_MANAGER_MAX_HITS - 1 /\ dec1 = r1

\* C7: of two ranks the better (smaller) one gets the strictly larger
\* stored value, and no stored value is negative.
C7_StoredOrder ==
    phase \in {"cm_stored", "ic_stored"} =>
        /\ r1 < r2 => LexLess(enc2, enc1)
        /\ sortable_unserialise(enc1) >= 0
        /\ LexLess(sortable_serialise(-1), enc1)

C7_Witness == phase = "cm_stored" /\ r1 = 0 /\ r2 = CACHE_MANAGER_MAX_HITS

\* C8: applying a cache again right after applying it, with nothing done in
\* between, changes no value of any document.
C8_ApplyIdempotent ==
    [][(lastop'.op \in ApplyOps /\ lastop'.rep) => docs' = docs]_vars

C8_Witness ==
    /\ lastop.op \in ApplyOps /\ lastop.rep
    /\ \E d \in DOMAIN docs : HoldsRank(lastop.c, d)

\* C9: an application raises nothing, creates and removes no document, and
\* writes the rank value of every hit-listed document that is in the index,
\* also when hit lists name docids that are not in the index.
C9_ApplySkipsAbsent ==
    [][lastop'.op \in ApplyOps =>
          /\ raised' = "none"
          /\ DOMAIN docs' = DOMAIN docs
          /\ \A c \in Caches : lastop'.c = c =>
               \A d \in DOMAIN docs : \A it \in InvertedItems(c, d) :
                  /\ lastop'.base + it[1] \in DOMAIN docs'[d].vals
                  /\ docs'[d].vals[lastop'.base + it[1]] =
                        IF lastop'.op = "CMApply" THEN CMEncodeRank(it[2])
                        ELSE ICEncodeRank(it[2])
      ]_vars

C9_Witness ==
    /\ lastop.op \in ApplyOps
    /\ InvertedDocids(lastop.c) \ DOMAIN docs # {}
    /\ \E d \in DOMAIN docs : InvertedItems(lastop.c, d) # {} /\ HoldsRank(lastop.c, d)

\* C10: the slot base an application writes at and a removal reads at is
\* the base a merged query reads at, BASE_CACHE_SLOT + offset(c), through
\* the connection as through the cache manager.
C10_OneSlotPerQuery ==
    (lastop.op \in {"CMApply", "ICApply", "CMRemove", "ICDelete"} /\ lastop.c \in Caches)
        => lastop.base = MergeSlot(lastop.c, 0)

\* The remove_hits calls the values of document d call for: one for every
\* value whose slot lies in the range of a cache of the coordinator, on that
\* cache, with query id = slot - the cache's base slot.
DueCalls(d) ==
    {<<e[3], t - e[1], CMDecodeRank(docs[d].vals[t]), d>> :
        <<e, t>> \in {x \in SlotsEntries \X DOMAIN docs[d].vals :
                        x[1][1] <= x[2] /\ x[2] < x[1][2]}}

\* C11: when every cache of the coordinator is registered in the index
\* and the coordinator's slot table is the current one, the coordinator's
\* remove_cached_items calls remove_hits for every value of the document
\* in a cache's range, on that cache with query id = slot - base, and
\* makes no other call.
C11_DispatchEveryValue ==
    (/\ mc_op.name = "remove"
     /\ DOMAIN mc_caches # {}
     /\ DOMAIN mc_caches \subseteq DOMAIN meta_caches
     /\ slots_info.tab \in SortedTables) =>
        Range(mc_calls) = DueCalls(mc_op.d)

\* C12: on a coordinator with several caches, apply, flush and close each
\* act on every cache of the coordinator and raise nothing, whichever
\* cache is selected; a read-oriented call acts on the selected cache only.
C12_FanOutToEvery ==
    Cardinality(DOMAIN mc_caches) >= 2 =>
        /\ mc_op.name \in {"apply", "flush", "close"} =>
              (mc_op.raised = "none" /\ mc_op.acted = DOMAIN mc_caches)
        /\ (mc_op.name = "read" /\ selected_cache # NoCache) =>
              mc_op.acted = {selected_cache}

InvertedCurrent ==
    /\ (inverted /\ invdb.exists) => DiskInversion(invdb.docs) = NaiveInversion
    /\ si_op \in {"set", "del"} => (~inverted /\ ~invdb.exists)

\* C14: an inverted database that exists and is marked valid holds the
\* inversion of the current hit lists; every write resets the mark and
\* removes the inverted database; the database is built in iter_by_docid
\* only.
C14_InvertedIsCurrent ==
    [][ /\ InvertedCurrent'
        /\ (invdb' # invdb /\ invdb'.exists) => si_op' = "iter_by_docid" ]_vars

C16_ModifiedNeverPropagates == sc_result.kind # "DatabaseModifiedError"

\* A search returned results after the error was caught twice.
C16_Witness == sc_result.kind = "results" /\ sc_result.retries >= 2 /\ sc_rev = db_rev

\* C17: a search that returns after a retry used the sort slot and the
\* facet slots a search begun on the reloaded configuration resolves.
C17_RetryUsesReloadedConfig ==
    (sc_result.kind = "results" /\ sc_result.retries > 0) =>
        /\ sc_result.rev = sc_rev
        /\ sc_result.mappings = sc_config
        /\ sc_result.sort = GetSlot(sc_config, enq.sortby)
        /\ sc_result.facets = FacetSlots(sc_config, enq.getfacets)

\* C18: an offset recorded in the 'caches' metadata is never changed or
\* dropped by a later step, whichever cache is applied and whatever its
\* query count has become.
C18_OffsetsNeverChange ==
    [][ \A c \in DOMAIN meta_caches :
           c \in DOMAIN meta_caches' /\ meta_caches'[c] = meta_caches[c] ]_vars

\* Cache "1" was applied again with two queries after being registered
\* with one, "cache2" having been registered in between.
C18_Witness ==
    /\ lastop.op = "CMApply" /\ lastop.c = "1"
    /\ nq["1"] = 2
    /\ meta_caches = ("1" :> 0) @@ ("cache2" :> 1)
    /\ num_cache_slots = 4

\* An upper bound of the offsets reserved for a registered cache: the
\* lowest offset of a cache registered above it, else the high-water mark.
ReservedEnd(c) ==
    Min({num_cache_slots} \cup
        {meta_caches[b] : b \in {x \in DOMAIN meta_caches : meta_caches[x] > meta_caches[c]}})

\* C19: apply_cached_items of a cache already registered, whose query
\* count exceeds the range reserved for it, raises an error and writes no
\* value at or above the end of that range.
C19_GrowthRejected ==
    [][ \A c \in DOMAIN meta_caches :
           ( /\ lastop'.op = "CMApply" /\ lastop'.c = c /\ nops' = nops + 1
             /\ meta_caches[c] + nq[c] > ReservedEnd(c) )
           => /\ raised' # "none"
              /\ \A d \in DOMAIN docs' : \A t \in DOMAIN docs'[d].vals :
                    t >= BASE_CACHE_SLOT + ReservedEnd(c) =>
                       /\ d \in DOMAIN docs /\ t \in DOMAIN docs[d].vals
                       /\ docs'[d].vals[t] = docs[d].vals[t] ]_vars

\* The values of a document below the cache region.
BelowBase(vals) ==
    [t \in {x \in DOMAIN vals : x < BASE_CACHE_SLOT} |-> vals[t]]

\* C20: an application changes no value below BASE_CACHE_SLOT, the slot
\* base of an application or removal is never below it, and after a
\* replace the values below it are those of the new document only.
C20_CacheSlotsFromBase ==
    [][ /\ (lastop'.op \in {"CMApply", "ICApply"} /\ nops' = nops + 1) =>
              /\ lastop'.base >= BASE_CACHE_SLOT
              /\ DOMAIN docs' = DOMAIN docs
              /\ \A d \in DOMAIN docs : BelowBase(docs'[d].vals) = BelowBase(docs[d].vals)
        /\ (lastop'.op \in {"CMRemove", "ICDelete"} /\ nops' = nops + 1) =>
              lastop'.base >= BASE_CACHE_SLOT
        /\ (lastop'.op = "ICReplace" /\ nops' = nops + 1) =>
              BelowBase(docs'[lastop'.d].vals) = BelowBase(lastop'.vals) ]_vars

\* A document holding a field value and a rank value was replaced by one
\* without values: the rank value was copied forward, the field value not.
C20_Witness ==
    /\ lastop.op = "ICReplace" /\ lastop.rep /\ lastop.vals = EmptyMap
    /\ cache_manager # NoCache
    /\ lastop.d \in DOMAIN docs
    /\ BelowBase(docs[lastop.d].vals) = EmptyMap
    /\ \E t \in DOMAIN docs[lastop.d].vals : t >= BASE_CACHE_SLOT

ConnState == <<indexvars, connvars, cachevars, lifevars>>

\* C22: on a closed connection close raises nothing and changes nothing,
\* and every other operation raises IndexerError and changes nothing.
C22_ClosedRaisesAndKeeps ==
    [][ (~ic_open /\ nops' = nops + 1) =>
           /\ ConnState' = ConnState
           /\ raised' = IF lastop'.op = "ICClose" THEN "none" ELSE "IndexerError" ]_vars

\* The same for every operation but set_cache_manager.
ClosedKeepsExceptSetCacheManager ==
    [][ (~ic_open /\ nops' = nops + 1 /\ lastop'.op # "SetCacheManager") =>
           /\ ConnState' = ConnState
           /\ raised' = IF lastop'.op = "ICClose" THEN "none" ELSE "IndexerError" ]_vars

AddOps == {"ICAdd", "ICAddFailed"}

\* C26: on an open connection, add with an id some document carries raises
\* DuplicatedIdError and changes neither the index nor the next docid nor
\* the caches; add without id raises nothing and stores the document, as
\* one more document, under an id no document carried.
C26_AddDuplicateOrFresh ==
    [][ (ic_open /\ nops' = nops + 1 /\ lastop'.op \in AddOps) =>
           /\ (lastop'.d # NoId /\ lastop'.d \in IndexIds) =>
                 /\ raised' = "DuplicatedIdError"
                 /\ ConnState' = ConnState
           /\ lastop'.d = NoId =>
                 /\ raised' = "none"
                 /\ co_ret' \notin IndexIds
                 /\ \E d \in DOMAIN docs' \ DOMAIN docs :
                       /\ docs'[d] = [id |-> co_ret', vals |-> lastop'.vals]
                       /\ DOMAIN docs' = DOMAIN docs \cup {d}
                 /\ \A d \in DOMAIN docs : docs'[d] = docs[d] ]_vars

\* A document added without id got the id after the ids in use: the ids 1
\* and 2 were skipped once 0 was given out.
C26_Witness ==
    /\ lastop.op = "ICAdd" /\ lastop.d = NoId
    /\ co_ret = MaxDocs + 1
    /\ next_docid = MaxDocs + 2
    /\ \E d \in DOMAIN docs : docs[d].id = 0

\* C27: a delete by an id no document carries raises nothing and changes
\* neither the index nor any cache, with or without a cache manager.
C27_DeleteAbsentId ==
    [][ (nops' = nops + 1 /\ lastop'.op \in {"ICDelete", "ICDeleteFailed"}
         /\ lastop'.d = 0) =>
           /\ raised' = "none"
           /\ indexvars' = indexvars
           /\ cachevars' = cachevars ]_vars

\* With a cache manager set and applied, a document was deleted and the
\* delete by its id repeated.
C27_Witness ==
    /\ lastop.op = "ICDelete" /\ lastop.d = 0
    /\ cache_manager # NoCache
    /\ hist[cache_manager].gone # {}

\* C28: a delete or a remove_cached_items changes a hit list of a cache
\* only when it acts on that cache and the document holds, in the slot the
\* last application of that cache wrote for it, a value for that query id.
C28_RemovalOnlyOwnValues ==
    [][ \A c \in Caches : \A q \in QueryIds :
           ( /\ nops' = nops + 1
             /\ lastop'.op \in {"ICDelete", "CMRemove"}
             /\ hits'[c][q] # hits[c][q] ) =>
              /\ lastop'.c = c
              /\ \E w \in hist[c].wrote :
                    /\ w[1] = lastop'.d /\ w[2] = q
                    /\ w[3] \in DOMAIN docs[lastop'.d].vals ]_vars

\* The entries of the slot table computed from the 'caches' metadata and
\* the query counts as they are now.
FreshEntries ==
    {<<cache_manager_slot_start(get_caches, c),
       cache_manager_slot_start(get_caches, c) + num_cached_queries(c), c>>
     : c \in DOMAIN mc_caches}

\* C29: the coordinator's memoised slot table, when set, holds exactly the
\* entries computed afresh from the 'caches' metadata and the caches'
\* query counts, in the order of their slots.
C29_SlotsInfoCurrent ==
    slots_info.set =>
        /\ Range(slots_info.tab) = FreshEntries
        /\ Len(slots_info.tab) = Cardinality(FreshEntries)
        /\ \A i \in DOMAIN slots_info.tab : \A j \in DOMAIN slots_info.tab :
              i < j => SlotsBefore(slots_info.tab[i], slots_info.tab[j])

\* C30: 'num_cache_slots' never decreases, a cache entering the 'caches'
\* metadata gets the value of 'num_cache_slots' before the step as offset,
\* and after an application of cache c 'num_cache_slots' is at least
\* offset(c) + num_cached_queries(c).
C30_HighWaterMark ==
    [][ /\ num_cache_slots' >= num_cache_slots
        /\ \A c \in DOMAIN meta_caches' :
              c \notin DOMAIN meta_caches => meta_caches'[c] = num_cache_slots
        /\ (lastop'.op = "CMApply" /\ nops' = nops + 1) =>
              num_cache_slots' >= meta_caches'[lastop'.c] + nq'[lastop'.c] ]_vars

\* Cache "1" was registered with one query and applied again with two.
C30_Witness ==
    /\ lastop.op = "CMApply" /\ lastop.c = "1" /\ lastop.rep = FALSE
    /\ nq["1"] = 2
    /\ meta_caches = ("1" :> 0)
    /\ num_cache_slots = 3

\* C23: once close was called on a manager whose database exists, a read
\* or a write of a key on it raises.
C23_ClosedCacheRaises ==
    [][ (st_closed /\ st.exists
         /\ st_op'.name \in {"getitem", "setitem", "delitem"}) =>
           st_op'.raised # "none" ]_vars

\* What a manager opened now on the path reads for a key.
FreshGet(key) ==
    GetValue([st EXCEPT !.db = "none", !.writable = FALSE], key)

\* C24: for every key, a manager opened on the path reads the value
\* written up to the last completed flush, or one written since; when a
\* flush has just completed it reads, for every key, the value last written.
C24_FlushedIsDurable ==
    /\ \A k \in StKeys :
          FreshGet(k) = st_flushed[k] \/ <<k, FreshGet(k)>> \in st_since
    /\ st_op.name = "flush" => \A k \in StKeys : FreshGet(k) = st_flushed[k]

\* A value and a query id were written and flushed and another value
\* written over the first, not flushed: a manager opened now reads the
\* flushed ones.
C24_Witness ==
    /\ st_op.name = "setitem" /\ st.view["H"] = <<8>>
    /\ st_flushed["H"] = <<7>>
    /\ st_flushed[QKey("x")] = StrOfInt(0)
    /\ FreshGet("H") = <<7>>
    /\ FreshGet(QKey("x")) = StrOfInt(0)

\* C25: get_or_make_queryid returns for a representation the id it
\* returned first, get_queryid returns that id too, and two
\* representations never have the same id.
C25_QueryIdStable ==
    /\ \A r \in QueryReprs :
          (st_op.name \in {"get_or_make_queryid", "get_queryid"} /\ st_op.key = r
           /\ (st_op.name = "get_or_make_queryid" \/ st_ids[r] # NoId)) =>
              st_op.ret = st_ids[r]
    /\ \A ra \in QueryReprs : \A rb \in QueryReprs :
          (ra # rb /\ st_ids[ra] # NoId) => st_ids[ra] # st_ids[rb]

\* Both representations have ids, and get_queryid returned the second one
\* after the manager was closed and read again.
C25_Witness ==
    /\ st_op.name = "get_queryid" /\ st_op.key = "y" /\ st_op.ret = 1
    /\ st_ids["x"] = 0
    /\ st_closed /\ st.db = "read"

\* C31: in prepare_iter_by_docid the assertion newdocid == qid + 1 holds for
\* every query id yielded, whatever ids the cache holds, and the number of
\* each document of the inverted database is one more than its query id.
C31_AssertionHolds ==
    /\ qi_op.raised # "AssertionError"
    /\ \A k \in DOMAIN qi_invdb : k = qi_invdb[k].qid + 1

\* C32: the term of a docid decodes to the docid, and for docids a < b the
\* term of a sorts, as a byte string, before the term of b.
C32_TermRoundTripAndOrder ==
    /\ tphase = "read" => back1 = d1
    /\ (tphase # "init" /\ d1 < d2) => LexLess(TermBytes(term1), TermBytes(term2))

\* A docid with one hexadecimal digit and a numerically larger one with
\* two, whose plain hexadecimal forms sort the other way round.
C32_Witness ==
    /\ tphase = "read"
    /\ d1 = 9
    /\ d2 = 16
    /\ LexLess(TermBytes(HexDigits(d2)), TermBytes(HexDigits(d1)))

\* C33: after any sequence of add, replace (by id or by xapid) and delete,
\* at most one document of the index carries any given unique id, and
\* get_document does not reach its multiple-documents error.
C33_UniqueIds ==
    /\ \A d \in DOMAIN docs : \A e \in DOMAIN docs : docs[d].id = docs[e].id => d = e
    /\ lastop.op # "ICGetDocumentMultiple"

\* C34: the retry loop of search terminates: with finitely many commits of
\* the writer, a search that reached get_mset returns results, and they
\* are those of the one revision the connection references at the return.
C34_SearchReturns ==
    (sc_pc = "get_mset") ~>
        (sc_pc = "idle" /\ sc_result.kind = "results" /\ sc_result.rev = sc_rev)

\* A search returned after it caught the error of every commit the writer
\* made.
C34_Witness ==
    /\ sc_pc = "idle"
    /\ sc_result.kind = "results"
    /\ db_rev = MaxCommits
    /\ sc_result.retries = MaxCommits

\* Every write went to a handle opened for writing.
WritesOnWritable ==
    cmgr_op.name \in {"setitem", "delitem"} => cmgr_op.handle = "write"

\* A read returns what the manager wrote last under the key, and keys()
\* yields the keys it wrote a value under and none it deleted.
ReadsSeeWrites ==
    /\ (cmgr_op.name = "getitem" /\ cmgr_last[cmgr_op.key] # NotWritten) =>
          cmgr_op.ret = cmgr_last[cmgr_op.key]
    /\ cmgr_op.name = "keys" =>
          \A k \in CallKeys :
             /\ cmgr_last[k] \in HitValues => k \in cmgr_op.ret
             /\ cmgr_last[k] = EmptyStr => k \notin cmgr_op.ret

\* C35 as stated: every write is issued on a writable handle, writable is
\* True exactly when the open handle is a writable one, and a read after a
\* write on the same manager sees the write.
C35_WritableIffWriteHandle ==
    /\ WritesOnWritable
    /\ cmgr.writable <=> cmgr.db = "write"
    /\ ReadsSeeWrites

\* C35, amended: every write is issued on a writable handle, while a handle
\* is open writable is True exactly when it is a writable one, and a read
\* after a write on the same manager sees the write.
C35_WritableIffWriteHandleWhileOpen ==
    /\ WritesOnWritable
    /\ cmgr.db # "none" => (cmgr.writable <=> cmgr.db = "write")
    /\ ReadsSeeWrites

\* A value was written and the manager closed, with the flag left True;
\* the read after it opened a read-only handle and returned the value.
C35_Witness ==
    /\ cmgr_op.name = "getitem" /\ cmgr_op.key = "H"
    /\ cmgr_last["H"] = <<8>>
    /\ cmgr_op.ret = <<8>>
    /\ cmgr.db = "read" /\ ~cmgr.writable

\* The manager has written nothing.
NeverWrote == \A k \in CallKeys : cmgr_last[k] = NotWritten

\* C36: a read of a key and a listing of the keys where no database exists
\* return '' and no key and leave the path and the manager as they are;
\* flush and close on a manager without handle change nothing, and on a
\* manager that wrote nothing they leave the database as it is.
C36_AbsentStoreAndIdleCalls ==
    [][ /\ (~cmgr.exists /\ cmgr_op'.name = "getitem") =>
              (cmgr_op'.ret = EmptyStr /\ cmgr' = cmgr)
        /\ (~cmgr.exists /\ cmgr_op'.name = "keys") =>
              (cmgr_op'.ret = {} /\ cmgr' = cmgr)
        /\ (cmgr_op'.name \in {"flush", "close"} /\ cmgr.db = "none") => cmgr' = cmgr
        /\ (cmgr_op'.name \in {"flush", "close"} /\ NeverWrote) =>
              (cmgr'.exists = cmgr.exists /\ cmgr'.disk = cmgr.disk) ]_vars

\* The keys were listed, and before that a key read, where no database
\* exists: none was created.
C36_Witness ==
    /\ cmgr_op.name = "keys"
    /\ cmgr_op.ret = {}
    /\ ~cmgr.exists
    /\ cmgr.db = "none"

\* C37: close always leaves the connection closed, and when it completes
\* without error the attached cache manager holds no handle and no write
\* that is not committed.
C37_CloseClosesAll ==
    [][ cl_op'.name = "close" =>
           /\ ~cl_index'
           /\ (cl_op'.raised = "none" /\ cl_cm') => (cl_cmdb' = "none" /\ ~cl_cmdirty')
      ]_vars

\* C38: for a request with an invalidating method the tool's get leaves no
\* cached response for the resource, sets request.cached and
\* request.cacheable to False and returns False, whether or not a response
\* was cached.
C38_InvalidatingRequest ==
    hc_rq.method \in invalid_methods =>
        /\ hc_rq.raised = "none"
        /\ hc_rq.ret = "False"
        /\ hc_rq.cached = "False"
        /\ hc_rq.cacheable = "False"
        /\ ~hc_rq.held

\* The sum of the body sizes of the objects held.
RECURSIVE HeldSize(_)
HeldSize(keys) ==
    IF keys = {} THEN 0
    ELSE LET k == CHOOSE x \in keys : TRUE
         IN hc_cache[k].size + HeldSize(keys \ {k})

\* C39: cursize is the sum of the body sizes of the objects held, and the
\* expiration thread removes an object at or after the object's own
\* expiration time only.
C39_CursizeAndExpiry ==
    /\ hc_cursize = HeldSize(HcKeys)
    /\ \A e \in hc_removed : e[2] <= e[3]

====
